---------------------------- MODULE Spec2Model ----------------------------
(* A model of splitwavepy's measurement core:                              *)
(*   - Measure.gridsearch   (src/splitwavepy/core/measure.py, l.71-145)    *)
(*   - Measure.get_errors   (src/splitwavepy/core/measure.py, l.404-443)   *)
(*   - Measure construction grids, data views, _renoise and bootstrap      *)
(*     utilities            (src/splitwavepy/core/measure.py)              *)
(*   - eigvalcov, grideigval, ndf and ftest                                *)
(*                          (src/splitwavepy/eigval/eigval3d.py)           *)
(* Waveform pairs are symbolic: a pair is the sequence of primitive        *)
(* operations (rotate, lag, unsplit, chop) applied so far to the samples   *)
(* of self.data, so that the order and the arguments of the operations     *)
(* are observable in every result.                                         *)
EXTENDS Integers, Sequences, FiniteSets, TLC

VARIABLES
    data,        \* self.data: the original pair (op term) and its window
    degs,        \* self.degs: trial angles (degrees)
    slags,       \* self.slags: trial shifts (samples)
    lags,        \* self.lags: trial lags (time units)
    rcvcorr,     \* self.__rcvcorr: Unset, or <<deg, samps>>
    srccorr,     \* self.__srccorr: Unset, or <<deg, samps>>
    kwargs,      \* keyword arguments of the running gridsearch call
    pc,          \* position of the running gridsearch call
    xy,          \* gridsearch local (x, y): the base pair
    s01,         \* gridsearch locals (s0, s1)
    ii,          \* index of the angle the generator prerot has reached
    jj,          \* index of the shift the inner comprehension has reached
    pre,         \* the tuple (rotate(x, y, ang), ang) prerot yielded last
    u,           \* getout locals (x, y)
    row,         \* the inner list under construction
    out,         \* the outer list under construction / returned
    calls,       \* history: every primitive call made, in order
    errsurf,     \* self.errsurf, indexed [lag][angle]
    conf95level, \* self.conf95level
    ge,          \* outcome of the last get_errors call
    ft,          \* the last eigval3d.ftest call: arguments and outcome
    nd,          \* the last eigval3d.ndf call: argument and outcome
    vw,          \* self.fast, self.lag and the last data view returned
    ctor,        \* keyword arguments of Measure(...) and its outcome
    bs,          \* the running bootstrap calls and the global numpy RNG
    eg,          \* the running eigval3d.grideigval call
    dat,         \* a Data object: its delta and window, and the last call on it
    trio,        \* a Trio(...) construction or genwindow call and its outcome
    picker       \* a WindowPicker, the canvas callbacks and the events so far

gsvars == <<data, slags, rcvcorr, srccorr, kwargs, pc, xy, s01, ii, jj, pre,
            u, row, out, calls>>
gevars == <<lags, errsurf, conf95level, ge>>
vars == <<data, degs, slags, lags, rcvcorr, srccorr, kwargs, pc, xy, s01, ii,
          jj, pre, u, row, out, calls, errsurf, conf95level, ge, ft, nd, vw,
          ctor, bs, eg, dat, trio, picker>>
objvars == <<dat, trio, picker>>
auxvars == <<ft, nd, vw, ctor, bs, eg, objvars>>

--------------------------------------------------------------------------
(* Bounds and input sets *)

MaxDegs == 3        \* gridsearch: at most this many trial angles
MaxSlag == 2        \* gridsearch: trial shifts range over -2 .. 2*MaxSlag

Unset == << >>      \* an attribute that was never assigned
NoValue == << >>    \* nothing returned

\* shifts are even sample counts (time2samps(..., mode='even'))
SlagVals == { 2 * k : k \in -1 .. MaxSlag }
RcvCorrs == { <<10, 2>> }
SrcCorrs == { <<40, 4>> }
PolVals == { 20 }
Windows == { <<4, 8>> }
\* number of samples of each trace of self.data: even, or odd
NSamps == { 10, 11 }
KwKeys == { "rcvcorr", "srccorr", "pol" }

Abs(n) == IF n < 0 THEN -n ELSE n

RECURSIVE SortedSeq(_)
\* np.unique: the sorted sequence of the distinct values
SortedSeq(S) ==
    IF S = {} THEN << >>
    ELSE LET m == CHOOSE x \in S : \A y \in S : x <= y
         IN  << m >> \o SortedSeq(S \ {m})

\* np.linspace(mindeg, maxdeg, n, endpoint=False) with mindeg = -90, maxdeg = 90
\* (the step (maxdeg - mindeg) / n is a whole number for the n used here)
mindeg == -90
maxdeg == 90
ParseDegs(n) == [ i \in 1 .. n |-> mindeg + (i - 1) * ((maxdeg - mindeg) \div n) ]

--------------------------------------------------------------------------
(* Primitive operations of core (rotate, lag, unsplit, chop), symbolic *)

Op(name, a, b) == [ op |-> name, a |-> a, b |-> b ]
Rotate(p, ang) == Append(p, Op("rotate", ang, 0))
Lag(p, n) == Append(p, Op("lag", n, 0))
Unsplit(p, phi, n) == Append(p, Op("unsplit", phi, n))
Chop(p, a, b) == Append(p, Op("chop", a, b))
\* self.func(x, y): a pure function of the pair it is given
Func(p) == [ stat |-> p ]

Call(site, i, j, o) == [ site |-> site, ii |-> i, jj |-> j, o |-> o ]
NoOp == Op("none", 0, 0)

--------------------------------------------------------------------------
(* Measure.gridsearch, measure.py l.71-145 *)

\* mutant of win: the window shrinks by ds on each side instead of moving
winShrinks(shift) ==
    LET ds == Abs(shift) \div 2
    IN  << s01[1] + ds, s01[2] - ds >>

\* win(shift), l.91-93: ds = int(abs(shift)/2); return s0-ds, s1-ds
win(shift) ==
    LET ds == Abs(shift) \div 2
    IN  << s01[1] - ds, s01[2] - ds >>

\* mutant of GetoutOrder: the pair is chopped before the source correction
GetoutOrderChopFirst == << "lag", "chop", "srccorr", "rotpol", "func" >>

\* the statements of getout in the order they are written, l.133-137
GetoutOrder == << "lag", "srccorr", "chop", "rotpol", "func" >>

StepIndex(step) == CHOOSE k \in 1 .. Len(GetoutOrder) : GetoutOrder[k] = step
IsLast(step) == StepIndex(step) = Len(GetoutOrder)
After(step) == GetoutOrder[StepIndex(step) + 1]
\* where control goes once the statement `step` of getout has run
Goto(step) == IF IsLast(step) THEN "inner" ELSE After(step)

\* l.84-93: copy = self.data.copy(); copy.rotateto(0); x, y = copy.x, copy.y;
\* s0, s1 = self.data._w0(), self.data._w1()
GsCopy ==
    /\ pc = "start"
    /\ xy' = Append(data.term, Op("rotateto", 0, 0))
    /\ s01' = << data.w0, data.w1 >>
    /\ calls' = Append(calls, Call("copy", 0, 0, Op("rotateto", 0, 0)))
    /\ pc' = "rcvcorr"
    /\ UNCHANGED << data, degs, slags, rcvcorr, srccorr, kwargs, ii, jj, pre,
                    u, row, out >>
    /\ UNCHANGED << gevars, auxvars >>

\* mutant of GsRcvcorr: the receiver correction is left out
GsRcvcorrDropped ==
    /\ pc = "rcvcorr"
    /\ pc' = "closures"
    /\ UNCHANGED << data, degs, slags, rcvcorr, srccorr, kwargs, xy, s01, ii,
                    jj, pre, u, row, out, calls >>
    /\ UNCHANGED << gevars, auxvars >>

\* l.95-98: pre-apply receiver correction
GsRcvcorr ==
    /\ pc = "rcvcorr"
    /\ IF "rcvcorr" \in kwargs.keys
       THEN IF rcvcorr = Unset
            THEN \* self.__rcvcorr was never assigned
                 /\ pc' = "AttributeError"
                 /\ UNCHANGED << xy, calls >>
            ELSE /\ xy' = Unsplit(xy, rcvcorr[1], rcvcorr[2])
                 /\ calls' = Append(calls, Call("rcvcorr", 0, 0,
                                      Op("unsplit", rcvcorr[1], rcvcorr[2])))
                 /\ pc' = "closures"
       ELSE /\ pc' = "closures"
            /\ UNCHANGED << xy, calls >>
    /\ UNCHANGED << data, degs, slags, rcvcorr, srccorr, kwargs, s01, ii, jj,
                    pre, u, row, out >>
    /\ UNCHANGED << gevars, auxvars >>

\* l.104-137: the closures srccorr, rotpol and getout are defined;
\* l.106 reads self.__srccorr when 'srccorr' is a keyword of the call
GsClosures ==
    /\ pc = "closures"
    /\ IF "srccorr" \in kwargs.keys /\ srccorr = Unset
       THEN pc' = "AttributeError"
       ELSE pc' = "prerot"
    /\ UNCHANGED << data, degs, slags, rcvcorr, srccorr, kwargs, xy, s01, ii,
                    jj, pre, u, row, out, calls >>
    /\ UNCHANGED << gevars, auxvars >>

\* l.140, l.143: the outer comprehension draws the next (rotate(x, y, ang), ang)
\* from the generator prerot, and the inner comprehension starts
GsPrerot ==
    /\ pc = "prerot"
    /\ ii < Len(degs)
    /\ ii' = ii + 1
    /\ pre' = << Rotate(xy, degs[ii + 1]), degs[ii + 1] >>
    /\ calls' = Append(calls, Call("prerot", ii + 1, 0,
                                   Op("rotate", degs[ii + 1], 0)))
    /\ row' = << >>
    /\ jj' = 0
    /\ pc' = "inner"
    /\ UNCHANGED << data, degs, slags, rcvcorr, srccorr, kwargs, xy, s01, u,
                    out >>
    /\ UNCHANGED << gevars, auxvars >>

\* mutant of GsInner: the pair is rotated again for every shift
GsInnerRotatesPerNode ==
    /\ pc = "inner"
    /\ IF jj < Len(slags)
       THEN /\ jj' = jj + 1
            /\ u' = Rotate(xy, degs[ii])
            /\ calls' = Append(calls, Call("prerot", ii, 0,
                                           Op("rotate", degs[ii], 0)))
            /\ pc' = "lag"
            /\ UNCHANGED out
       ELSE /\ out' = Append(out, row)
            /\ pc' = "prerot"
            /\ UNCHANGED << jj, u, calls >>
    /\ UNCHANGED << data, degs, slags, rcvcorr, srccorr, kwargs, xy, s01, ii,
                    pre, row >>
    /\ UNCHANGED << gevars, auxvars >>

\* l.142: for shift in self.slags -- the next shift, or the row is complete
GsInner ==
    /\ pc = "inner"
    /\ IF jj < Len(slags)
       THEN \* getout(xy[0], xy[1], ang, shift) is entered
            /\ jj' = jj + 1
            /\ u' = pre[1]
            /\ pc' = GetoutOrder[1]
            /\ UNCHANGED out
       ELSE /\ out' = Append(out, row)
            /\ pc' = "prerot"
            /\ UNCHANGED << jj, u >>
    /\ UNCHANGED << data, degs, slags, rcvcorr, srccorr, kwargs, xy, s01, ii,
                    pre, row, calls >>
    /\ UNCHANGED << gevars, auxvars >>

\* l.133: x, y = lag(x, y, -shift)
GsLag ==
    /\ pc = "lag"
    /\ u' = Lag(u, -slags[jj])
    /\ calls' = Append(calls, Call("lag", ii, jj, Op("lag", -slags[jj], 0)))
    /\ pc' = Goto("lag")
    /\ UNCHANGED << data, degs, slags, rcvcorr, srccorr, kwargs, xy, s01, ii,
                    jj, pre, row, out >>
    /\ UNCHANGED << gevars, auxvars >>

\* l.134 with l.105-112: x, y = srccorr(x, y, ang)
GsSrccorr ==
    /\ pc = "srccorr"
    /\ IF "srccorr" \in kwargs.keys
       THEN /\ u' = Unsplit(u, srccorr[1] - pre[2], srccorr[2])
            /\ calls' = Append(calls, Call("srccorr", ii, jj,
                              Op("unsplit", srccorr[1] - pre[2], srccorr[2])))
       ELSE /\ u' = u
            /\ calls' = Append(calls, Call("srccorr", ii, jj, NoOp))
    /\ pc' = Goto("srccorr")
    /\ UNCHANGED << data, degs, slags, rcvcorr, srccorr, kwargs, xy, s01, ii,
                    jj, pre, row, out >>
    /\ UNCHANGED << gevars, auxvars >>

\* l.135: x, y = chop(x, y, *win(shift))
GsChop ==
    /\ pc = "chop"
    /\ LET w == win(slags[jj])
       IN  /\ u' = Chop(u, w[1], w[2])
           /\ calls' = Append(calls, Call("chop", ii, jj, Op("chop", w[1], w[2])))
    /\ pc' = Goto("chop")
    /\ UNCHANGED << data, degs, slags, rcvcorr, srccorr, kwargs, xy, s01, ii,
                    jj, pre, row, out >>
    /\ UNCHANGED << gevars, auxvars >>

\* l.136 with l.115-128: x, y = rotpol(x, y, ang)
GsRotpol ==
    /\ pc = "rotpol"
    /\ IF "pol" \in kwargs.keys
       THEN /\ u' = Rotate(u, kwargs.pol - pre[2])
            /\ calls' = Append(calls, Call("rotpol", ii, jj,
                                           Op("rotate", kwargs.pol - pre[2], 0)))
       ELSE /\ u' = u
            /\ calls' = Append(calls, Call("rotpol", ii, jj, NoOp))
    /\ pc' = Goto("rotpol")
    /\ UNCHANGED << data, degs, slags, rcvcorr, srccorr, kwargs, xy, s01, ii,
                    jj, pre, row, out >>
    /\ UNCHANGED << gevars, auxvars >>

\* l.137 and l.142: return self.func(x, y); the value becomes the next element
\* of the inner list
GsFunc ==
    /\ pc = "func"
    /\ calls' = Append(calls, Call("func", ii, jj, NoOp))
    /\ row' = Append(row, Func(u))
    /\ pc' = Goto("func")
    /\ UNCHANGED << data, degs, slags, rcvcorr, srccorr, kwargs, xy, s01, ii,
                    jj, pre, u, out >>
    /\ UNCHANGED << gevars, auxvars >>

\* l.145: return out, once prerot is exhausted
GsReturn ==
    /\ pc = "prerot"
    /\ ii = Len(degs)
    /\ pc' = "returned"
    /\ UNCHANGED << data, degs, slags, rcvcorr, srccorr, kwargs, xy, s01, ii,
                    jj, pre, u, row, out, calls >>
    /\ UNCHANGED << gevars, auxvars >>

\* no Data, Trio or WindowPicker call is running
IdleObjects ==
    /\ dat = [ status |-> "idle" ]
    /\ trio = [ status |-> "idle" ]
    /\ picker = [ status |-> "idle" ]

\* no surface has been computed and get_errors has not been called
IdleErrors ==
    /\ lags = << >>
    /\ errsurf = << >>
    /\ conf95level = 0
    /\ ge = [ surftype |-> "None", status |-> "idle", confbool |-> NoValue,
              fdfast |-> NoValue, fdlag |-> NoValue ]

\* the state after Measure.__init__ (l.33-67), and a gridsearch call entered
Init ==
    /\ data \in { [ term |-> << >>, w0 |-> w[1], w1 |-> w[2], nsamps |-> n ] :
                    w \in Windows, n \in NSamps }
    /\ degs \in { ParseDegs(n) : n \in 0 .. MaxDegs }
    /\ slags \in { SortedSeq(S) : S \in SUBSET SlagVals }
    /\ rcvcorr \in { Unset } \cup RcvCorrs
    /\ srccorr \in { Unset } \cup SrcCorrs
    /\ kwargs \in [ keys : SUBSET KwKeys, pol : PolVals ]
    /\ pc = "start"
    /\ xy = << >>
    /\ s01 = << 0, 0 >>
    /\ ii = 0
    /\ jj = 0
    /\ pre = << << >>, 0 >>
    /\ u = << >>
    /\ row = << >>
    /\ out = << >>
    /\ calls = << >>
    /\ IdleErrors
    /\ ft = [ status |-> "idle" ]
    /\ nd = [ status |-> "idle" ]
    /\ vw = [ status |-> "idle" ]
    /\ ctor = [ status |-> "idle" ]
    /\ bs = [ status |-> "idle" ]
    /\ eg = [ status |-> "idle" ]
    /\ IdleObjects

Next ==
    \/ GsCopy
    \/ GsRcvcorr
    \/ GsClosures
    \/ GsPrerot
    \/ GsInner
    \/ GsLag
    \/ GsSrccorr
    \/ GsChop
    \/ GsRotpol
    \/ GsFunc
    \/ GsReturn

Spec == Init /\ [][Next]_vars

--------------------------------------------------------------------------
(* Measure.get_errors, measure.py l.404-443 *)

MaxBins == 4        \* get_errors: at most this many angle bins
MaxNodes == 12      \* get_errors: at most this many nodes on the surface

\* lag grids (time units) the error surface is given on
LagGrids == { << 0 >>, << 0, 2 >>, << 0, 4, 8 >> }
SurfVals == { 0, 1 }
Levels == { 0, 1 }
\* the argument surftype: 'min', 'max', the default None, any other value
SurfTypes == { "min", "max", "None", "other" }

\* n * 0.25
Quarter(n) == << n, 4 >>

\* mutant of ConfBool: strict comparisons
ConfBoolStrict(surf, level, surftype) ==
    [ j \in 1 .. Len(surf) |->
        [ i \in 1 .. Len(surf[j]) |->
            IF surftype = "max" THEN surf[j][i] > level
                                ELSE surf[j][i] < level ] ]

\* l.419-422: errsurf >= conf95level ('max'), errsurf <= conf95level ('min')
ConfBool(surf, level, surftype) ==
    [ j \in 1 .. Len(surf) |->
        [ i \in 1 .. Len(surf[j]) |->
            IF surftype = "max" THEN surf[j][i] >= level
                                ELSE surf[j][i] <= level ] ]

\* confbool.any(axis=1): one entry per row (lag)
AnyAxis1(m) == [ j \in 1 .. Len(m) |-> \E i \in 1 .. Len(m[j]) : m[j][i] ]
\* confbool.any(axis=0): one entry per column (angle)
AnyAxis0(m) == [ i \in 1 .. Len(m[1]) |-> \E j \in 1 .. Len(m) : m[j][i] ]
\* np.where(b)[0]: the indices of the true entries, ascending
Where(b) == SelectSeq([ k \in 1 .. Len(b) |-> k ], LAMBDA k : b[k])
\* mutant of Cyclic: the coverage vector is not doubled
CyclicNotDoubled(fastbool) == fastbool

\* np.hstack((fastbool, fastbool))
Cyclic(fastbool) == fastbool \o fastbool
\* np.diff
Diff(s) == [ k \in 1 .. Len(s) - 1 |-> s[k + 1] - s[k] ]
\* .max() of a non-empty array
MaxOf(s) == CHOOSE m \in { s[k] : k \in 1 .. Len(s) } :
                \A k \in 1 .. Len(s) : s[k] <= m

\* mutant of FdLag: the true rows are counted instead of spanned
FdLagCountsTrueRows(truth, lag_step) == Quarter(Len(truth) * lag_step)

\* mutant of LengthFalse: the gap between true bins is taken as the false run
LengthFalseOffByOne(cyclic) == MaxOf(Diff(Where(cyclic)))

\* l.430: fdlag = (truth[-1] - truth[0] + 1) * lag_step * 0.25
FdLag(truth, lag_step) == Quarter((truth[Len(truth)] - truth[1] + 1) * lag_step)
\* l.437: lengthFalse = np.diff(np.where(cyclic)).max() - 1
LengthFalse(cyclic) == MaxOf(Diff(Where(cyclic))) - 1
\* l.439-440: lengthTrue = fastbool.size - lengthFalse;
\* fdfast = lengthTrue * fast_step * 0.25
FdFast(fastbool, fast_step) ==
    Quarter((Len(fastbool) - LengthFalse(Cyclic(fastbool))) * fast_step)

Raised(surftype, error) ==
    [ surftype |-> surftype, status |-> error, confbool |-> NoValue,
      fdfast |-> NoValue, fdlag |-> NoValue ]

\* get_errors(surftype) on a Measure with the given grids, surface and level
GetErrorsOf(gdegs, glags, surf, level, surftype) ==
    IF Len(glags) < 2 \/ Len(gdegs) < 2
    THEN \* l.414-415: self.lags[1], self.degs[1]
         Raised(surftype, "IndexError")
    ELSE IF surftype \notin { "max", "min" }
    THEN \* l.423-424
         Raised(surftype, "ValueError")
    ELSE
    LET lag_step == glags[2] - glags[1]
        fast_step == gdegs[2] - gdegs[1]
        confbool == ConfBool(surf, level, surftype)
        truth == Where(AnyAxis1(confbool))
        fastbool == AnyAxis0(confbool)
    IN  IF Len(truth) = 0
        THEN \* l.430: truth[-1] of an empty array
             [ Raised(surftype, "IndexError") EXCEPT !.confbool = confbool ]
        ELSE IF Len(Where(Cyclic(fastbool))) < 2
        THEN \* l.437: max of an empty array
             [ Raised(surftype, "ValueError") EXCEPT !.confbool = confbool ]
        ELSE [ surftype |-> surftype, status |-> "returned",
               confbool |-> confbool,
               fdfast |-> FdFast(fastbool, fast_step),
               fdlag |-> FdLag(truth, lag_step) ]

\* a call of get_errors
GetErrors ==
    /\ \E surftype \in SurfTypes :
           ge' = GetErrorsOf(degs, lags, errsurf, conf95level, surftype)
    /\ UNCHANGED << degs, lags, errsurf, conf95level >>
    /\ UNCHANGED << gsvars, auxvars >>

\* no gridsearch call is running
IdleGridsearch ==
    /\ data = [ term |-> << >>, w0 |-> 0, w1 |-> 0, nsamps |-> 0 ]
    /\ slags = << >>
    /\ rcvcorr = Unset
    /\ srccorr = Unset
    /\ kwargs = [ keys |-> {}, pol |-> 0 ]
    /\ pc = "idle"
    /\ xy = << >>
    /\ s01 = << 0, 0 >>
    /\ ii = 0
    /\ jj = 0
    /\ pre = << << >>, 0 >>
    /\ u = << >>
    /\ row = << >>
    /\ out = << >>
    /\ calls = << >>

\* a Measure whose surface and confidence level have been computed
InitErrors ==
    /\ degs \in { ParseDegs(n) : n \in 1 .. MaxBins }
    /\ lags \in LagGrids
    /\ Len(lags) * Len(degs) <= MaxNodes
    /\ errsurf \in [ 1 .. Len(lags) -> [ 1 .. Len(degs) -> SurfVals ] ]
    /\ conf95level \in Levels
    /\ ge = [ surftype |-> "None", status |-> "idle", confbool |-> NoValue,
              fdfast |-> NoValue, fdlag |-> NoValue ]
    /\ IdleGridsearch
    /\ ft = [ status |-> "idle" ]
    /\ nd = [ status |-> "idle" ]
    /\ vw = [ status |-> "idle" ]
    /\ ctor = [ status |-> "idle" ]
    /\ bs = [ status |-> "idle" ]
    /\ eg = [ status |-> "idle" ]
    /\ IdleObjects

NextErrors == GetErrors

SpecErrors == InitErrors /\ [][NextErrors]_vars

--------------------------------------------------------------------------
(* Properties of Measure.gridsearch *)

IsPrefix(s, t) == Len(s) <= Len(t) /\ \A k \in 1 .. Len(s) : s[k] = t[k]
CallsAt(site) == SelectSeq(calls, LAMBDA c : c.site = site)
NodeCalls(i, j) == SelectSeq(calls, LAMBDA c : c.ii = i /\ c.jj = j /\ j > 0)
SitesOf(s) == [ k \in 1 .. Len(s) |-> s[k].site ]
InGetout == pc \in { "lag", "srccorr", "chop", "rotpol", "func" }

\* the pair the statistic function is to be given at angle degs[i] and shift
\* slags[j], as section 4.2/4.3 of the specification describes it
BaseTerm ==
    << Op("rotateto", 0, 0) >>
    \o (IF "rcvcorr" \in kwargs.keys
        THEN << Op("unsplit", rcvcorr[1], rcvcorr[2]) >> ELSE << >>)
ExpectedOps(i, j) ==
    << Op("lag", -slags[j], 0),
       IF "srccorr" \in kwargs.keys
       THEN Op("unsplit", srccorr[1] - degs[i], srccorr[2]) ELSE NoOp,
       Op("chop", data.w0 - (Abs(slags[j]) \div 2), data.w1 - (Abs(slags[j]) \div 2)),
       IF "pol" \in kwargs.keys
       THEN Op("rotate", kwargs.pol - degs[i], 0) ELSE NoOp >>
NodeTerm(i, j) ==
    SelectSeq(BaseTerm \o << Op("rotate", degs[i], 0) >> \o ExpectedOps(i, j),
              LAMBDA o : o # NoOp)
StatAt(i, j) == Func(NodeTerm(i, j))

\* C1 (as claimed): for non-empty grids the returned surface is indexed
\* [lag, angle]: it has len(slags) rows and len(degs) columns and the statistic
\* for angle degs[i] and shift slags[j] is stored at surface[j][i].
C1_SurfaceLagAngle ==
    (pc = "returned" /\ Len(degs) >= 1 /\ Len(slags) >= 1) =>
        /\ Len(out) = Len(slags)
        /\ \A j \in 1 .. Len(out) : Len(out[j]) = Len(degs)
        /\ \A j \in 1 .. Len(slags) : \A i \in 1 .. Len(degs) :
               out[j][i] = StatAt(i, j)

\* what the code returns instead: the list is indexed [angle][lag]
C1_SurfaceAngleLag ==
    (pc = "returned" /\ Len(degs) >= 1 /\ Len(slags) >= 1) =>
        /\ Len(out) = Len(degs)
        /\ \A i \in 1 .. Len(out) : Len(out[i]) = Len(slags)
        /\ \A i \in 1 .. Len(degs) : \A j \in 1 .. Len(slags) :
               out[i][j] = StatAt(i, j)

\* C2: at every grid node the steps run in the order lag(-shift), source
\* correction relative to ang, chop to the window, rotation to the polarisation
\* frame (when 'pol' was supplied), statistic function; none is skipped or
\* reordered, and the statistic is computed on the pair these steps produced.
C2_StepOrder ==
    LET order == << "lag", "srccorr", "chop", "rotpol", "func" >>
        AsClaimed(i, j, nc) ==
            /\ IsPrefix(SitesOf(nc), order)
            /\ \A k \in 1 .. Len(nc) : k <= 4 => nc[k].o = ExpectedOps(i, j)[k]
    IN  /\ (ii >= 1 /\ jj >= 1) =>
            LET nc == NodeCalls(ii, jj)
            IN  /\ AsClaimed(ii, jj, nc)
                /\ IF InGetout
                   THEN /\ Len(nc) < Len(order)
                        /\ order[Len(nc) + 1] = pc
                        /\ u = SelectSeq(
                                BaseTerm \o << Op("rotate", degs[ii], 0) >>
                                \o SubSeq(ExpectedOps(ii, jj), 1, Len(nc)),
                                LAMBDA o : o # NoOp)
                   ELSE SitesOf(nc) = order
        /\ \A j \in 1 .. Len(row) : row[j] = StatAt(ii, j)
        /\ pc = "returned" =>
               \A i \in 1 .. Len(degs) : \A j \in 1 .. Len(slags) :
                   LET nc == NodeCalls(i, j)
                   IN  AsClaimed(i, j, nc) /\ SitesOf(nc) = order

C2_Witness ==
    /\ pc = "returned"
    /\ Len(degs) >= 2
    /\ Len(slags) >= 2
    /\ { "srccorr", "pol" } \subseteq kwargs.keys
    /\ SitesOf(NodeCalls(2, 2)) = << "lag", "srccorr", "chop", "rotpol", "func" >>

\* C3: in one run the base pair is rotated to each trial angle exactly once
\* (A rotations, not A*L), angles are the outer loop, and every node of an angle
\* starts from the result of that angle's single rotation.
C3_RotateOncePerAngle ==
    LET rot == CallsAt("prerot")
    IN  /\ Len(rot) = ii
        /\ \A k \in 1 .. Len(rot) :
               rot[k].ii = k /\ rot[k].o = Op("rotate", degs[k], 0)
        /\ pc = "returned" => Len(rot) = Len(degs)
        /\ \A p \in 1 .. Len(calls) - 1 :
               /\ calls[p].ii <= calls[p + 1].ii
               /\ calls[p].ii = calls[p + 1].ii => calls[p].jj <= calls[p + 1].jj
        /\ ii >= 1 => pre = << BaseTerm \o << Op("rotate", degs[ii], 0) >>, degs[ii] >>
        /\ InGetout => IsPrefix(pre[1], u)

C3_Witness ==
    /\ pc = "returned"
    /\ Len(degs) >= 2
    /\ Len(slags) >= 3
    /\ Len(CallsAt("prerot")) = Len(degs)
    /\ Len(CallsAt("func")) = Len(degs) * Len(slags)

C5_WindowLength ==
    \A p \in 1 .. Len(calls) :
        calls[p].site = "chop" =>
            LET shift == slags[calls[p].jj]
                start == calls[p].o.a
                end == calls[p].o.b
            IN  /\ end - start = data.w1 - data.w0
                /\ \E d \in 0 .. Abs(shift) :
                       /\ 2 * d <= Abs(shift)
                       /\ Abs(shift) < 2 * d + 2
                       /\ Abs(start - data.w0) = d
                       /\ Abs(end - data.w1) = d

C5_Witness ==
    \E p \in 1 .. Len(calls) :
        /\ calls[p].site = "chop"
        /\ Abs(slags[calls[p].jj]) >= 4
        /\ calls[p].o.a # data.w0

--------------------------------------------------------------------------
(* Properties of Measure.get_errors *)

\* the surface with its angle axis rotated cyclically by r bins
RotateAngles(surf, r) ==
    [ j \in 1 .. Len(surf) |->
        [ i \in 1 .. Len(surf[j]) |-> surf[j][((i - 1 + r) % Len(surf[j])) + 1] ] ]
\* the angle-coverage and lag-coverage vectors of the mask built last
Fastbool == [ i \in 1 .. Len(degs) |->
                \E j \in 1 .. Len(lags) : ge.confbool[j][i] ]
Lagbool == [ j \in 1 .. Len(lags) |->
               \E i \in 1 .. Len(degs) : ge.confbool[j][i] ]
\* bin i (1-based) lies on the cyclic arc of len bins starting at bin start
OnArc(i, start, len, n) == ((i - start) % n) < len
\* the true bins of b are one cyclic run of k bins starting at bin start
IsRun(b, start, k) ==
    \A i \in 1 .. Len(b) : b[i] <=> OnArc(i, start, k, Len(b))

\* C6: with at least one true bin, the dfast get_errors returns is unchanged
\* when the angle-coverage vector is rotated cyclically by any number of bins;
\* a true run across the wraparound gives the dfast of the same run mid-axis.
C6_CyclicInvariance ==
    ge.status = "returned" =>
        /\ \A r \in 0 .. Len(degs) - 1 :
               LET rot == GetErrorsOf(degs, lags, RotateAngles(errsurf, r),
                                      conf95level, ge.surftype)
               IN  rot.status = "returned" /\ rot.fdfast = ge.fdfast
        /\ \A start \in 1 .. Len(degs) : \A k \in 1 .. Len(degs) :
               IsRun(Fastbool, start, k) =>
                   ge.fdfast = Quarter(k * (degs[2] - degs[1]))

\* a run of true bins that straddles the wraparound boundary
C6_Witness ==
    /\ ge.status = "returned"
    /\ Len(degs) >= 4
    /\ Fastbool[1] /\ Fastbool[Len(degs)]
    /\ ~Fastbool[2] /\ ~Fastbool[3]

\* C7: with N bins and at least one true bin, lengthTrue = N - (longest cyclic
\* run of false bins) is the length of the shortest cyclic arc containing all
\* true bins, 1 <= lengthTrue <= N, and dfast = lengthTrue * fast_step / 4.
C7_ShortestArc ==
    ge.status = "returned" =>
        LET n == Len(degs)
            b == Fastbool
            falseRuns == { k \in 0 .. n : \E start \in 1 .. n :
                             \A i \in 1 .. n : OnArc(i, start, k, n) => ~b[i] }
            covers == { k \in 1 .. n : \E start \in 1 .. n :
                          \A i \in 1 .. n : b[i] => OnArc(i, start, k, n) }
            longestFalse == CHOOSE k \in falseRuns : \A m \in falseRuns : m <= k
            lengthTrue == n - longestFalse
        IN  /\ \E i \in 1 .. n : b[i]
            /\ lengthTrue \in covers
            /\ \A k \in covers : lengthTrue <= k
            /\ 1 <= lengthTrue /\ lengthTrue <= n
            /\ ge.fdfast = Quarter(lengthTrue * (degs[2] - degs[1]))

\* true bins with false bins between them, and a longer false run elsewhere
C7_Witness ==
    /\ ge.status = "returned"
    /\ Len(degs) >= 4
    /\ Fastbool[2] /\ ~Fastbool[3] /\ Fastbool[4] /\ ~Fastbool[1]
    /\ ge.fdfast = Quarter(3 * (degs[2] - degs[1]))

\* C8: with at least one true node, dlag = (last - first + 1) * lag_step / 4,
\* first and last being the lowest and highest lag index whose row holds a true
\* node; the lag axis is not cyclic and false rows in between are counted.
C8_LagWidth ==
    ge.status = "returned" =>
        LET rows == { j \in 1 .. Len(lags) : Lagbool[j] }
            first == CHOOSE j \in rows : \A k \in rows : j <= k
            last == CHOOSE j \in rows : \A k \in rows : k <= j
        IN  /\ rows # {}
            /\ ge.fdlag = Quarter((last - first + 1) * (lags[2] - lags[1]))

\* a false row between two rows that hold true nodes
C8_Witness ==
    /\ ge.status = "returned"
    /\ Len(lags) >= 3
    /\ Lagbool[1] /\ ~Lagbool[2] /\ Lagbool[3]
    /\ ge.fdlag = Quarter(3 * (lags[2] - lags[1]))

\* get_errors got as far as its surftype test (the grid has a lag step and an
\* angle step, l.414-415)
HasSteps == Len(lags) >= 2 /\ Len(degs) >= 2

\* C9: the mask is errsurf <= conf95level for surftype 'min' and
\* errsurf >= conf95level for 'max'; any other surftype, the default None
\* included, fails with ValueError and returns no errors.
C9_Surftype ==
    ge.status # "idle" =>
        /\ (HasSteps /\ ge.surftype = "min") =>
               /\ ge.confbool # NoValue
               /\ \A j \in 1 .. Len(lags) : \A i \in 1 .. Len(degs) :
                      ge.confbool[j][i] <=> (errsurf[j][i] <= conf95level)
        /\ (HasSteps /\ ge.surftype = "max") =>
               /\ ge.confbool # NoValue
               /\ \A j \in 1 .. Len(lags) : \A i \in 1 .. Len(degs) :
                      ge.confbool[j][i] <=> (errsurf[j][i] >= conf95level)
        /\ ge.surftype \notin { "min", "max" } =>
               /\ HasSteps => ge.status = "ValueError"
               /\ ge.status # "returned"
               /\ ge.confbool = NoValue
               /\ ge.fdfast = NoValue /\ ge.fdlag = NoValue

C9_Witness ==
    /\ HasSteps
    /\ ge.surftype = "None"
    /\ ge.status = "ValueError"
    /\ \E j \in 1 .. Len(lags) : \E i \in 1 .. Len(degs) :
           errsurf[j][i] = conf95level

\* C10 (as claimed): an empty confidence mask, and a mask that covers every
\* node, are signalled with a DegenerateConfidenceRegionError.
C10_DegenerateSignalled ==
    (ge.status # "idle" /\ ge.confbool # NoValue) =>
        LET empty == \A j \in 1 .. Len(lags) : \A i \in 1 .. Len(degs) :
                         ~ge.confbool[j][i]
            total == \A j \in 1 .. Len(lags) : \A i \in 1 .. Len(degs) :
                         ge.confbool[j][i]
        IN  (empty \/ total) => ge.status = "DegenerateConfidenceRegionError"

\* what the code does instead: an empty mask ends in IndexError (truth[-1],
\* l.430), a mask covering every node returns the full-range errors
C10_DegenerateInCode ==
    (ge.status # "idle" /\ ge.confbool # NoValue) =>
        LET empty == \A j \in 1 .. Len(lags) : \A i \in 1 .. Len(degs) :
                         ~ge.confbool[j][i]
            total == \A j \in 1 .. Len(lags) : \A i \in 1 .. Len(degs) :
                         ge.confbool[j][i]
        IN  /\ empty => ge.status = "IndexError"
            /\ total =>
                   /\ ge.status = "returned"
                   /\ ge.fdfast = Quarter(Len(degs) * (degs[2] - degs[1]))
                   /\ ge.fdlag = Quarter(Len(lags) * (lags[2] - lags[1]))

--------------------------------------------------------------------------
(* eigval3d.ftest (src/splitwavepy/eigval/eigval3d.py, l.149-160)          *)
(* Reals are rationals << num, den >>, kept as the code computes them; a   *)
(* zero denominator stands for a value that is not finite (inf or nan).    *)

MaxLam == 2
MaxNdf == 4

\* l.156: two parameters, phi and dt
k == 2

\* stats.f.ppf(1 - alpha, k, ndf) for ndf > 0: a critical value F >= 0
FVals == { 0, 3, 19 }
\* ndf as the caller passes it: a Python float, or a numpy float64
NdfTypes == { "float", "float64" }
\* the lam2 surfaces passed to ftest, indexed [lag][angle]
Lam2Surfs ==
    UNION { [ 1 .. L -> [ 1 .. A -> 0 .. MaxLam ] ] : L \in 1 .. 2, A \in 1 .. 2 }

NaN == << 0, 0 >>
Inf == << 1, 0 >>

RECURSIVE MinOf(_)
MinOf(s) ==
    IF Len(s) = 1 THEN s[1]
    ELSE LET m == MinOf(Tail(s)) IN IF s[1] <= m THEN s[1] ELSE m

\* l.155: lam2.min()
SurfMin(surf) == MinOf([ r \in 1 .. Len(surf) |-> MinOf(surf[r]) ])

\* mutant of FtestOf: the F term is subtracted
FtestOfMinus(lam2, ndf, ndftype, F) ==
    LET lam2min == SurfMin(lam2)
        args == [ lam2 |-> lam2, ndf |-> ndf, ndftype |-> ndftype, F |-> F ]
    IN  IF ndf <= 0
        THEN args @@ [ status |-> "returned", lam2alpha |-> NaN ]
        ELSE IF ndf = k
        THEN IF ndftype = "float"
             THEN args @@ [ status |-> "ZeroDivisionError", lam2alpha |-> NaN ]
             ELSE args @@ [ status |-> "returned",
                            lam2alpha |-> IF lam2min = 0 THEN NaN ELSE Inf ]
        ELSE args @@ [ status |-> "returned",
                       lam2alpha |-> << lam2min * ((ndf - k) - k * F), ndf - k >> ]

\* l.158-160; F is nan when ndf <= 0, and k/(ndf-k) divides by zero when
\* ndf = k: ZeroDivisionError for a Python float, inf (then inf or nan) for a
\* numpy float64
FtestOf(lam2, ndf, ndftype, F) ==
    LET lam2min == SurfMin(lam2)
        args == [ lam2 |-> lam2, ndf |-> ndf, ndftype |-> ndftype, F |-> F ]
    IN  IF ndf <= 0
        THEN args @@ [ status |-> "returned", lam2alpha |-> NaN ]
        ELSE IF ndf = k
        THEN IF ndftype = "float"
             THEN args @@ [ status |-> "ZeroDivisionError", lam2alpha |-> NaN ]
             ELSE args @@ [ status |-> "returned",
                            lam2alpha |-> IF lam2min = 0 THEN NaN ELSE Inf ]
        ELSE args @@ [ status |-> "returned",
                       lam2alpha |-> << lam2min * ((ndf - k) + k * F), ndf - k >> ]

Ftest ==
    /\ ft.status = "called"
    /\ ft' = FtestOf(ft.lam2, ft.ndf, ft.ndftype, ft.F)
    /\ UNCHANGED << degs, gsvars, gevars, nd, vw, ctor, bs, eg, objvars >>

\* a call ftest(lam2, ndf) entered
InitFtest ==
    /\ ft \in [ status : { "called" }, lam2 : Lam2Surfs, ndf : 0 .. MaxNdf,
                ndftype : NdfTypes, F : FVals, lam2alpha : { NaN } ]
    /\ degs = << >>
    /\ IdleGridsearch
    /\ IdleErrors
    /\ nd = [ status |-> "idle" ]
    /\ vw = [ status |-> "idle" ]
    /\ ctor = [ status |-> "idle" ]
    /\ bs = [ status |-> "idle" ]
    /\ eg = [ status |-> "idle" ]
    /\ IdleObjects

NextFtest == Ftest

SpecFtest == InitFtest /\ [][NextFtest]_vars

\* C11: whenever ndf <= k, ftest signals an InsufficientDataError instead of
\* returning a confidence level computed with a zero or negative ndf - k.
C11_InsufficientData ==
    (ft.status # "called" /\ ft.ndf <= k) => ft.status = "InsufficientDataError"

\* what the code does for ndf <= k: it raises ZeroDivisionError or returns a
\* value that is not finite when ndf - k = 0 or ndf <= 0, and returns the level
\* computed with the negative ndf - k otherwise
C11_InCode ==
    (ft.status # "called" /\ ft.ndf <= k) =>
        \/ ft.status = "ZeroDivisionError" /\ ft.ndf = k
        \/ ft.status = "returned" /\ ft.lam2alpha[2] = 0
                                  /\ (ft.ndf = k \/ ft.ndf <= 0)
        \/ ft.status = "returned" /\ ft.lam2alpha[2] < 0 /\ 0 < ft.ndf

--------------------------------------------------------------------------
(* Properties of Measure.gridsearch: the inputs it accepts *)

\* C12: gridsearch fails with an InvalidGridError when the set of trial angles
\* or the set of trial lags is empty; it never returns an empty surface.
C12_EmptyGridFails ==
    /\ ((Len(degs) = 0 \/ Len(slags) = 0) /\ pc # "start")
           => pc = "InvalidGridError"
    /\ pc = "returned" => (Len(out) > 0 /\ \A i \in 1 .. Len(out) : Len(out[i]) > 0)

\* what the code does with an empty grid: it returns a surface with no angles,
\* or with one empty list per angle, and evaluates no node
C12_InCode ==
    (pc = "returned" /\ (Len(degs) = 0 \/ Len(slags) = 0)) =>
        /\ Len(out) = Len(degs)
        /\ \A i \in 1 .. Len(out) : Len(out[i]) = 0
        /\ CallsAt("func") = << >>

\* C13: gridsearch on a pair with an even number of samples fails with an
\* InvalidInputError and evaluates no grid node.
C13_EvenLengthFails ==
    (data.nsamps % 2 = 0 /\ pc # "start") =>
        /\ pc = "InvalidInputError"
        /\ CallsAt("func") = << >>

\* what the code does: the number of samples is never read, and an
\* even-length pair gets every node evaluated
C13_InCode ==
    (data.nsamps % 2 = 0 /\ pc = "returned") =>
        /\ Len(out) = Len(degs)
        /\ \A i \in 1 .. Len(out) : Len(out[i]) = Len(slags)
        /\ Len(CallsAt("func")) = Len(degs) * Len(slags)

--------------------------------------------------------------------------
(* eigval3d.ndf (src/splitwavepy/eigval/eigval3d.py, l.122-147)            *)
(* y is the noise trace that reaches l.137 (after the optional detrend and *)
(* chop).  The discrete Fourier transform is exact for the trace lengths   *)
(* below, whose twiddle factors are 0, +-1/2, +-1 and +-sqrt(3)/2: the     *)
(* model carries 4*|Y[kk]|^2, which is an integer.                         *)

MaxAmp == 1

TraceLens == { 1, 2, 3, 4 }
Traces == UNION { [ 1 .. N -> -MaxAmp .. MaxAmp ] : N \in TraceLens }

RECURSIVE SumSeq(_)
SumSeq(s) == IF Len(s) = 0 THEN 0 ELSE s[1] + SumSeq(Tail(s))

\* 2*cos(2*pi*m/N), m = 0 .. N-1
Cos2(N) ==
    CASE N = 1 -> << 2 >>
      [] N = 2 -> << 2, -2 >>
      [] N = 3 -> << 2, -1, -1 >>
      [] N = 4 -> << 2, 0, -2, 0 >>
\* sin(2*pi*m/N) = SinSign(N)[m+1] * sqrt(SinSq(N)) / 2
SinSign(N) ==
    CASE N = 1 -> << 0 >>
      [] N = 2 -> << 0, 0 >>
      [] N = 3 -> << 0, 1, -1 >>
      [] N = 4 -> << 0, 1, 0, -1 >>
SinSq(N) == CASE N \in { 1, 2 } -> 0 [] N = 3 -> 3 [] N = 4 -> 4

\* l.137-138: amp**2 = |np.fft.fft(y)|**2 at bin kk (0-based), times 4
Power4(y, kk) ==
    LET N == Len(y)
        re == SumSeq([ n \in 1 .. N |-> y[n] * Cos2(N)[((kk * (n - 1)) % N) + 1] ])
        im == SumSeq([ n \in 1 .. N |-> y[n] * SinSign(N)[((kk * (n - 1)) % N) + 1] ])
    IN  re * re + SinSq(N) * im * im

\* l.140-141: a = np.ones(Y.size); a[0] = a[-1] = 0.5, times 2
Weights2(N) == [ i \in 1 .. N |-> IF i = 1 \/ i = N THEN 1 ELSE 2 ]

\* l.142: E2 = np.sum(a * amp**2), times 8
E2x8(y, a2) == SumSeq([ i \in 1 .. Len(y) |-> a2[i] * Power4(y, i - 1) ])
\* l.143: E4 = np.sum((4 * a**2 / 3) * amp**4), times 48
E4x48(y, a2) ==
    SumSeq([ i \in 1 .. Len(y) |-> a2[i] * a2[i] * Power4(y, i - 1) * Power4(y, i - 1) ])

\* l.145: ndf = 2 * (2 * E2**2 / E4 - 1) = (3*E2x8^2 - 2*E4x48) / E4x48;
\* 0/0 is nan
NdfOf(y, a2) ==
    << 3 * E2x8(y, a2) * E2x8(y, a2) - 2 * E4x48(y, a2), E4x48(y, a2) >>

Ndf ==
    /\ nd.status = "called"
    /\ nd' = [ nd EXCEPT !.status = "returned",
                         !.ndf = NdfOf(nd.y, Weights2(Len(nd.y))) ]
    /\ UNCHANGED << degs, gsvars, gevars, ft, vw, ctor, bs, eg, objvars >>

\* a call ndf(y) entered
InitNdf ==
    /\ nd \in [ status : { "called" }, y : Traces, ndf : { NaN } ]
    /\ degs = << >>
    /\ IdleGridsearch
    /\ IdleErrors
    /\ ft = [ status |-> "idle" ]
    /\ vw = [ status |-> "idle" ]
    /\ ctor = [ status |-> "idle" ]
    /\ bs = [ status |-> "idle" ]
    /\ eg = [ status |-> "idle" ]
    /\ IdleObjects

NextNdf == Ndf

SpecNdf == InitNdf /\ [][NextNdf]_vars

\* equality of two rationals; values that are not finite are equal to each
\* other only
RatEq(p, q) ==
    IF p[2] = 0 \/ q[2] = 0 THEN p[2] = 0 /\ q[2] = 0
    ELSE p[1] * q[2] = q[1] * p[2]

\* the weights of the claim: 0.5 at the DC bin and at the Nyquist bin (bin N/2,
\* which exists when N is even), 1 elsewhere; times 2
DcNyquistWeights2(N) ==
    [ i \in 1 .. N |-> IF i = 1 \/ (N % 2 = 0 /\ i = (N \div 2) + 1) THEN 1 ELSE 2 ]

\* Parseval: the powers of the transform sum to N times the energy of y
PowerIsParseval ==
    \A y \in Traces :
        SumSeq([ i \in 1 .. Len(y) |-> Power4(y, i - 1) ])
            = 4 * Len(y) * SumSeq([ n \in 1 .. Len(y) |-> y[n] * y[n] ])

\* C14: ndf(y) equals 2*(2*E2^2/E4 - 1) with E2 = sum(a*A^2) and
\* E4 = sum((4*a^2/3)*A^4), where the weight a is 1 for interior bins and 0.5
\* at the DC bin and the Nyquist bin.
C14_NdfWeights ==
    nd.status = "returned" =>
        RatEq(nd.ndf, NdfOf(nd.y, DcNyquistWeights2(Len(nd.y))))

\* what the code does: the halved weights sit on the first and the last bin of
\* the two-sided transform, which are the DC bin and the Nyquist bin only for
\* traces of one or two samples
C14_InCode ==
    nd.status = "returned" =>
        /\ RatEq(nd.ndf, NdfOf(nd.y, Weights2(Len(nd.y))))
        /\ Len(nd.y) <= 2 => RatEq(nd.ndf, NdfOf(nd.y, DcNyquistWeights2(Len(nd.y))))

--------------------------------------------------------------------------
(* The data views of Measure (measure.py l.331-395) and _renoise (l.559-579), *)
(* called between gridsearch calls.  A Data object is its op term and its      *)
(* window; rotateto, set_labels and the assignment of y act in place on the    *)
(* object they are called on, so each view is run on the two objects it can    *)
(* reach: self.data and the local it builds.                                   *)

FastVals == { 30 }
LagVals == { 2 }

\* Data.copy (data.py l.202-203) is io.copy: an object of its own with the
\* same samples, orientation and window
Copy(d) == d

\* the objects of a view after `loc = self.data.copy()`
Cells(d) == [ self |-> d, loc |-> Copy(d) ]
\* a sequence of in-place operations on the object ref
InPlace(h, ref, ops) == [ h EXCEPT ![ref].term = @ \o ops ]

\* l.331-336: srcpol(), then rotateto(self.srcpol())
SrcpolOp ==
    IF vw.haspol THEN Op("rotateto", vw.pol, 0)
    ELSE Op("rotateto_estimate_pol", 0, 0)
SetLabels(first) == Op("set_labels_" \o first, 0, 0)

\* l.348-355: the corrections data_corr applies, in order; self.rcvcorr and
\* self.srccorr hold the lag in time units, which Data.unsplit converts back
\* to the samples of self.__rcvcorr and self.__srccorr
DataCorrOps ==
    (IF rcvcorr # Unset THEN << Op("unsplit", rcvcorr[1], rcvcorr[2]) >> ELSE << >>)
    \o << Op("unsplit", vw.fast, vw.lag) >>
    \o (IF srccorr # Unset THEN << Op("unsplit", srccorr[1], srccorr[2]) >> ELSE << >>)

\* l.564-577: the operations _renoise applies to bs = self.data_corr()
RenoiseOps ==
    DataCorrOps
    \o << SrcpolOp, Op("resample_noise", 0, 0), Op("rotateto_origang", 0, 0) >>
    \o (IF srccorr # Unset THEN << Op("split", srccorr[1], srccorr[2]) >> ELSE << >>)
    \o << Op("split", vw.fast, vw.lag) >>
    \o (IF rcvcorr # Unset THEN << Op("split", rcvcorr[1], rcvcorr[2]) >> ELSE << >>)

\* no gridsearch call is running
BetweenCalls == pc \in { "start", "returned", "AttributeError" }

\* the view named name returns the object loc of h
Returns(name, h) ==
    /\ BetweenCalls
    /\ data' = h.self
    /\ vw' = [ vw EXCEPT !.status = name, !.ret = h.loc ]
    /\ UNCHANGED << degs, slags, rcvcorr, srccorr, kwargs, pc, xy, s01, ii, jj,
                    pre, u, row, out, calls >>
    /\ UNCHANGED << gevars, ft, nd, ctor, bs, eg, objvars >>

\* l.345-356
DataCorr == Returns("data_corr", InPlace(Cells(data), "loc", DataCorrOps))

\* l.372-376
Srcpoldata ==
    Returns("srcpoldata",
            InPlace(Cells(data), "loc", << SrcpolOp, SetLabels("srcpol") >>))

\* l.378-382
SrcpoldataCorr ==
    Returns("srcpoldata_corr",
            InPlace(Cells(data), "loc",
                    DataCorrOps \o << SrcpolOp, SetLabels("srcpol") >>))

\* l.384-389
Fastdata ==
    Returns("fastdata",
            InPlace(Cells(data), "loc",
                    << Op("rotateto", vw.fast, 0), SetLabels("fast") >>))

\* l.391-395
FastdataCorr ==
    Returns("fastdata_corr",
            InPlace(Cells(data), "loc",
                    DataCorrOps \o << Op("rotateto", vw.fast, 0), SetLabels("fast") >>))

\* mutant of Renoise: the new data is assigned to self.data instead of
\* newself.data
RenoiseAssignsSelf ==
    LET h == InPlace(Cells(data), "loc", RenoiseOps)
    IN  Returns("_renoise", [ h EXCEPT !.self = h.loc ])

\* l.559-579: newself = self.copy(); bs = self.data_corr(); ...;
\* newself.data = bs; return newself
Renoise == Returns("_renoise", InPlace(Cells(data), "loc", RenoiseOps))

\* a Measure with self.fast and self.lag set, and a gridsearch call entered
InitViews ==
    /\ data \in { [ term |-> << >>, w0 |-> w[1], w1 |-> w[2], nsamps |-> 11 ] :
                    w \in Windows }
    /\ degs \in { ParseDegs(1), ParseDegs(2) }
    /\ slags \in { << 0 >>, << 0, 2 >> }
    /\ rcvcorr \in { Unset } \cup RcvCorrs
    /\ srccorr \in { Unset } \cup SrcCorrs
    /\ kwargs \in [ keys : SUBSET KwKeys, pol : PolVals ]
    /\ pc = "start"
    /\ xy = << >>
    /\ s01 = << 0, 0 >>
    /\ ii = 0
    /\ jj = 0
    /\ pre = << << >>, 0 >>
    /\ u = << >>
    /\ row = << >>
    /\ out = << >>
    /\ calls = << >>
    /\ IdleErrors
    /\ vw \in [ status : { "none" }, fast : FastVals, lag : LagVals,
                haspol : BOOLEAN, pol : PolVals,
                ret : { [ term |-> << >>, w0 |-> 0, w1 |-> 0, nsamps |-> 0 ] } ]
    /\ ft = [ status |-> "idle" ]
    /\ nd = [ status |-> "idle" ]
    /\ ctor = [ status |-> "idle" ]
    /\ bs = [ status |-> "idle" ]
    /\ eg = [ status |-> "idle" ]
    /\ IdleObjects

NextViews ==
    \/ Next
    \/ DataCorr
    \/ Srcpoldata
    \/ SrcpoldataCorr
    \/ Fastdata
    \/ FastdataCorr
    \/ Renoise

SpecViews == InitViews /\ [][NextViews]_vars

\* C15: after any sequence of gridsearch, data_corr, srcpoldata,
\* srcpoldata_corr, fastdata, fastdata_corr and _renoise calls the Measure's
\* original data (samples, orientation and window) is unchanged: no step of
\* any of them writes to self.data.
C15_DataUnchanged == [][data' = data]_vars

\* a gridsearch has returned and _renoise has returned corrected, renoised,
\* re-split data while self.data is as constructed
C15_Witness ==
    /\ pc = "returned"
    /\ vw.status = "_renoise"
    /\ Len(vw.ret.term) >= Len(RenoiseOps)
    /\ Len(out) > 0
    /\ data.term = << >>

--------------------------------------------------------------------------
(* Measure._parse_lags and _get_degs_lags_and_slags (measure.py l.221-269), *)
(* as Measure.__init__ calls them (l.38).  Times are rationals              *)
(* << num, den >> with den > 0.                                             *)

MaxT == 2
MaxPts == 3

\* l.224, l.226, l.250
minlag == 0
nlags == 40
ndegs == 90

\* self.data.delta, and self.data.window.width (odd)
Deltas == { 1, 2 }
WWidths == { 5, 9 }

TimeVals == -MaxT .. MaxT
\* the lags keyword: absent, a numpy array, a tuple, or anything else
LagsInputs ==
    { [ kind |-> "default", args |-> << >> ], [ kind |-> "other", args |-> << >> ],
      [ kind |-> "tuple", args |-> << >> ],
      [ kind |-> "tuple", args |-> << 0, 1, 2, 3 >> ] }
    \cup { [ kind |-> "ndarray", args |-> a ] :
             a \in UNION { [ 1 .. n -> TimeVals ] : n \in 0 .. 2 } }
    \cup { [ kind |-> "tuple", args |-> << b >> ] : b \in TimeVals }
    \cup { [ kind |-> "tuple", args |-> << b, n >> ] : b \in TimeVals, n \in 0 .. MaxPts }
    \cup { [ kind |-> "tuple", args |-> << a, b, n >> ] :
             a \in TimeVals, b \in TimeVals, n \in 0 .. MaxPts }

\* np.linspace(start, stop, num), endpoint included
Linspace(start, stop, num) ==
    IF num = 1 THEN << start >>
    ELSE [ i \in 1 .. num |->
             << start[1] * stop[2] * (num - 1)
                  + (i - 1) * (stop[1] * start[2] - start[1] * stop[2]),
                start[2] * stop[2] * (num - 1) >> ]

Whole(n) == << n, 1 >>

\* l.221-243; the result is << "ok", lags >> or << exception, << >> >>
ParseLags(kw, wwidth) ==
    LET maxlag == << wwidth[1], wwidth[2] * 4 >>
    IN  CASE kw.kind = "default" ->
               << "ok", Linspace(Whole(minlag), maxlag, nlags) >>
          [] kw.kind = "ndarray" ->
               << "ok", [ i \in 1 .. Len(kw.args) |-> Whole(kw.args[i]) ] >>
          [] kw.kind = "tuple" /\ Len(kw.args) = 1 ->
               << "ok", Linspace(Whole(minlag), Whole(kw.args[1]), nlags) >>
          [] kw.kind = "tuple" /\ Len(kw.args) = 2 ->
               << "ok", Linspace(Whole(minlag), Whole(kw.args[1]), kw.args[2]) >>
          [] kw.kind = "tuple" /\ Len(kw.args) = 3 ->
               << "ok", Linspace(Whole(kw.args[1]), Whole(kw.args[2]), kw.args[3]) >>
          [] kw.kind = "tuple" /\ Len(kw.args) \notin { 1, 2, 3 } ->
               << "Exception", << >> >>
          [] OTHER -> << "TypeError", << >> >>

\* np.rint of num/den, den > 0: to the nearest integer, halves to the even one
Rint(num, den) ==
    LET q == num \div den
        r == num % den
    IN  IF 2 * r < den THEN q
        ELSE IF 2 * r > den THEN q + 1
        ELSE IF q % 2 = 0 THEN q ELSE q + 1

\* core.time2samps(t, delta, mode='even'): the even number of samples nearest
\* to t / delta
Time2SampsEven(t, delta) == 2 * Rint(t[1], t[2] * 2 * delta)

\* l.262-269
GetDegsLagsAndSlagsOf(kw, delta, width) ==
    LET parsed == ParseLags(kw, << (width - 1) * delta, 1 >>)
        samps == { Time2SampsEven(parsed[2][i], delta) : i \in 1 .. Len(parsed[2]) }
        uniq == SortedSeq(samps)
    IN  [ status |-> parsed[1],
          slags |-> uniq,
          lags |-> [ i \in 1 .. Len(uniq) |-> uniq[i] * delta ],
          degs |-> IF parsed[1] = "ok" THEN ParseDegs(ndegs) ELSE << >> ]

GetDegsLagsAndSlags ==
    /\ ctor.status = "called"
    /\ LET r == GetDegsLagsAndSlagsOf(ctor.lags, ctor.delta, ctor.width)
       IN  /\ ctor' = [ ctor EXCEPT !.status = r.status ]
           /\ slags' = r.slags
           /\ lags' = r.lags
           /\ degs' = r.degs
    /\ UNCHANGED << data, rcvcorr, srccorr, kwargs, pc, xy, s01, ii, jj, pre, u,
                    row, out, calls, errsurf, conf95level, ge >>
    /\ UNCHANGED << ft, nd, vw, bs, eg, objvars >>

\* Measure(data, func, lags=...) entered
InitLags ==
    /\ ctor \in [ status : { "called" }, lags : LagsInputs, delta : Deltas,
                  width : WWidths ]
    /\ degs = << >>
    /\ IdleGridsearch
    /\ IdleErrors
    /\ ft = [ status |-> "idle" ]
    /\ nd = [ status |-> "idle" ]
    /\ vw = [ status |-> "idle" ]
    /\ bs = [ status |-> "idle" ]
    /\ eg = [ status |-> "idle" ]
    /\ IdleObjects

NextLags == GetDegsLagsAndSlags

SpecLags == InitLags /\ [][NextLags]_vars

\* C16: for every lags input accepted by Measure construction the resulting
\* slags are unique, non-negative, even integers and include 0.
C16_SlagsInvariant ==
    ctor.status = "ok" =>
        /\ \A i, j \in 1 .. Len(slags) : i # j => slags[i] # slags[j]
        /\ \A i \in 1 .. Len(slags) : slags[i] >= 0 /\ slags[i] % 2 = 0
        /\ \E i \in 1 .. Len(slags) : slags[i] = 0

\* what the code does: slags are unique, ascending and even for every accepted
\* input; they are non-negative and include 0 for the default grid, while an
\* array, a tuple with a negative or non-zero end, or a tuple asking for no
\* points is taken as given
C16_InCode ==
    ctor.status = "ok" =>
        /\ \A i \in 1 .. Len(slags) - 1 : slags[i] < slags[i + 1]
        /\ \A i \in 1 .. Len(slags) : slags[i] % 2 = 0
        /\ ctor.lags.kind = "default" =>
               /\ \A i \in 1 .. Len(slags) : slags[i] >= 0
               /\ Len(slags) > 0 /\ slags[1] = 0

--------------------------------------------------------------------------
(* Measure._bootstrap_samp, _bootstrap_loop (measure.py l.447-457) and      *)
(* _correction_variance (l.477-521).  Two invocations, A and B, run against *)
(* the one global numpy random state, which is the number of draws made     *)
(* from it so far: a drawn value is named by its position in the stream.    *)

MaxN == 2
MaxM == 2

Invs == { "A", "B" }
StatFuncs == { "eigvalcov", "crosscorr", "transenergy", "pearson" }

\* self._bootstrap_prep(): the oriented, windowed pair
Prepared == << Op("bootstrap_prep", 0, 0) >>

\* core.bootstrap_resamp(x, y) is given the pair only: the resampling it
\* returns is named by the position r of the random stream it has reached
Resamp(p, r) == [ xy |-> p, r |-> r ]
\* mutant of BootstrapSamp: the value is computed on the first resampling again
BootstrapSampStale(p, r) == [ stat |-> Resamp(p, 1) ]
\* l.447-449: self._bootstrap_stat(*core.bootstrap_resamp(x, y))
BootstrapSamp(p, r) == [ stat |-> Resamp(p, r) ]

\* the invocations A can be: _bootstrap_loop(n), or
\* _correction_variance(rcvinfo, srcinfo, n, m) with self.func = func
Invocation(kind, func, n, m, rcvinfo, srcinfo) ==
    [ kind |-> kind, func |-> func, n |-> n, m |-> m, rcvinfo |-> rcvinfo,
      srcinfo |-> srcinfo, pc |-> "start", prep |-> 0, xy |-> << >>, ii |-> 0,
      jj |-> 0, corr |-> << >>, datas |-> << >>, vals |-> << >> ]
LoopInvocations ==
    { Invocation("loop", "eigvalcov", n, 1, FALSE, FALSE) : n \in 1 .. MaxN }
CvInvocations ==
    { Invocation("cv", f, n, m, r, s) :
        f \in StatFuncs, n \in 1 .. MaxN, m \in 1 .. MaxM,
        r \in BOOLEAN, s \in BOOLEAN }

\* the bootstrap touches nothing else of the Measure
BootFrame == UNCHANGED << degs, gsvars, gevars, ft, nd, vw, ctor, eg, objvars >>

\* l.451-454: x, y = self._bootstrap_prep()
BootPrep(a) ==
    /\ bs.inv[a].kind = "loop"
    /\ bs.inv[a].pc = "start"
    /\ bs' = [ bs EXCEPT !.inv[a].pc = "samp", !.inv[a].prep = @ + 1,
                         !.inv[a].xy = Prepared ]
    /\ BootFrame

\* l.456: one self._bootstrap_samp(x, y) of the comprehension
BootSamp(a) ==
    /\ bs.inv[a].kind = "loop"
    /\ bs.inv[a].pc = "samp"
    /\ bs.inv[a].ii < bs.inv[a].n
    /\ bs' = [ bs EXCEPT !.rng = @ + 1, !.inv[a].ii = @ + 1,
                         !.inv[a].vals =
                             Append(@, BootstrapSamp(bs.inv[a].xy, bs.rng + 1)) ]
    /\ BootFrame

\* l.456-457: the comprehension is exhausted; return bootstrap_vals
BootReturn(a) ==
    /\ bs.inv[a].kind = "loop"
    /\ bs.inv[a].pc = "samp"
    /\ bs.inv[a].ii = bs.inv[a].n
    /\ bs' = [ bs EXCEPT !.inv[a].pc = "returned" ]
    /\ BootFrame

\* l.507-512: _draw_corr(info) from the stream position r: None, or
\* (np.random.normal(...), np.random.normal(...))
DrawCorr(info, r) == IF info THEN << r + 1, r + 2 >> ELSE Unset
Drawn(c) == IF c = Unset THEN 0 ELSE 2

\* l.487-498: _get_data up to the choice of orientation
GetDataOps(rcv, src) ==
    (IF rcv # Unset THEN << Op("unsplit", rcv[1], rcv[2]) >> ELSE << >>)
    \o << Op("unsplit_fast_lag", 0, 0) >>
    \o (IF src # Unset THEN << Op("unsplit", src[1], src[2]) >> ELSE << >>)

\* l.499-505: the pair _get_data returns; data_corr.chopdata() has no method
\* rotatetto
GetDataFor(func, ops) ==
    IF func = "transenergy" THEN << "AttributeError", << >> >>
    ELSE IF func \in { "crosscorr", "pearson" }
    THEN << "ok", ops \o << Op("chopdata", 0, 0), Op("rotateto_fast", 0, 0) >> >>
    ELSE << "ok", ops \o << Op("chopdata", 0, 0) >> >>

\* l.514-519: the outer comprehension takes the next item of datafeed, which
\* draws the trial corrections (receiver side first) and builds the data
CvFeed(a) ==
    /\ bs.inv[a].kind = "cv"
    /\ bs.inv[a].pc \in { "start", "feed" }
    /\ bs.inv[a].ii < bs.inv[a].n
    /\ LET rcv == DrawCorr(bs.inv[a].rcvinfo, bs.rng)
           src == DrawCorr(bs.inv[a].srcinfo, bs.rng + Drawn(rcv))
           got == GetDataFor(bs.inv[a].func, GetDataOps(rcv, src))
       IN  bs' = [ bs EXCEPT !.rng = @ + Drawn(rcv) + Drawn(src),
                             !.inv[a].corr = Append(@, << rcv, src >>),
                             !.inv[a].ii = @ + 1,
                             !.inv[a].jj = 0,
                             !.inv[a].datas =
                                 IF got[1] = "ok" THEN Append(@, got[2]) ELSE @,
                             !.inv[a].pc =
                                 IF got[1] = "ok" THEN "inner" ELSE got[1] ]
    /\ BootFrame

\* l.518: one self._bootstrap_samp(*data) of the inner comprehension
CvSamp(a) ==
    /\ bs.inv[a].kind = "cv"
    /\ bs.inv[a].pc = "inner"
    /\ bs.inv[a].jj < bs.inv[a].m
    /\ LET d == bs.inv[a].datas[Len(bs.inv[a].datas)]
       IN  bs' = [ bs EXCEPT !.rng = @ + 1,
                             !.inv[a].jj = @ + 1,
                             !.inv[a].vals = Append(@, BootstrapSamp(d, bs.rng + 1)),
                             !.inv[a].pc =
                                 IF bs.inv[a].jj + 1 = bs.inv[a].m
                                 THEN "feed" ELSE "inner" ]
    /\ BootFrame

\* l.521: datafeed is exhausted; return np.asarray(vals).flatten()
CvReturn(a) ==
    /\ bs.inv[a].kind = "cv"
    /\ bs.inv[a].pc = "feed"
    /\ bs.inv[a].ii = bs.inv[a].n
    /\ bs' = [ bs EXCEPT !.inv[a].pc = "returned" ]
    /\ BootFrame

\* two invocations entered, the random state as seeded
InitBoot ==
    /\ bs \in [ rng : { 0 },
                inv : { f \in [ Invs -> LoopInvocations \cup CvInvocations ] :
                          f["B"] \in { Invocation("loop", "eigvalcov", 1, 1, FALSE, FALSE),
                                       Invocation("cv", "eigvalcov", 1, 1, TRUE, FALSE) } } ]
    /\ degs = << >>
    /\ IdleGridsearch
    /\ IdleErrors
    /\ ft = [ status |-> "idle" ]
    /\ nd = [ status |-> "idle" ]
    /\ vw = [ status |-> "idle" ]
    /\ ctor = [ status |-> "idle" ]
    /\ eg = [ status |-> "idle" ]
    /\ IdleObjects

NextBoot ==
    \/ \E a \in Invs : BootPrep(a)
    \/ \E a \in Invs : BootSamp(a)
    \/ \E a \in Invs : BootReturn(a)
    \/ \E a \in Invs : CvFeed(a)
    \/ \E a \in Invs : CvSamp(a)
    \/ \E a \in Invs : CvReturn(a)

SpecBoot == InitBoot /\ [][NextBoot]_vars

--------------------------------------------------------------------------
(* Properties of the bootstrap *)

Finished(a) == bs.inv[a].pc \in { "returned", "AttributeError" }
\* the stream positions a drawn correction, a trial's pair of corrections and
\* the invocation a have drawn from
CorrPositions(c) == IF c = Unset THEN { } ELSE { c[1], c[2] }
TrialPositions(t) == CorrPositions(t[1]) \cup CorrPositions(t[2])
Positions(a) ==
    { bs.inv[a].vals[i].stat.r : i \in 1 .. Len(bs.inv[a].vals) }
    \cup UNION { TrialPositions(bs.inv[a].corr[t]) : t \in 1 .. Len(bs.inv[a].corr) }

\* C17: for every n >= 1, _bootstrap_loop(n) prepares the pair once and returns
\* exactly n values, the i-th computed on its own fresh resampling of that
\* same prepared (x, y).
C17_BootstrapLoop ==
    \A a \in Invs :
        bs.inv[a].kind = "loop" =>
            /\ bs.inv[a].prep <= 1
            /\ Len(bs.inv[a].vals) <= bs.inv[a].n
            /\ \A i \in 1 .. Len(bs.inv[a].vals) :
                   /\ bs.inv[a].vals[i].stat.xy = Prepared
                   /\ \A j \in 1 .. Len(bs.inv[a].vals) :
                          i # j => bs.inv[a].vals[i].stat.r # bs.inv[a].vals[j].stat.r
            /\ bs.inv[a].pc = "returned" =>
                   /\ bs.inv[a].prep = 1
                   /\ Len(bs.inv[a].vals) = bs.inv[a].n

\* a loop of more than one value has returned
C17_Witness ==
    /\ bs.inv["A"].kind = "loop"
    /\ bs.inv["A"].pc = "returned"
    /\ bs.inv["A"].n > 1
    /\ Len(bs.inv["A"].vals) = bs.inv["A"].n

\* C18: for each supported statistic function and all n, m >= 1,
\* _correction_variance draws exactly n trial corrections per supplied side
\* (none for a side whose info is None), performs m bootstrap resamplings on
\* each trial's corrected data, and returns a flattened sequence of n*m values.
C18_CorrectionVariance ==
    \A a \in Invs :
        (bs.inv[a].kind = "cv" /\ Finished(a)) =>
            /\ bs.inv[a].pc = "returned"
            /\ Len(bs.inv[a].corr) = bs.inv[a].n
            /\ \A t \in 1 .. Len(bs.inv[a].corr) :
                   /\ (bs.inv[a].corr[t][1] # Unset) = bs.inv[a].rcvinfo
                   /\ (bs.inv[a].corr[t][2] # Unset) = bs.inv[a].srcinfo
            /\ Len(bs.inv[a].vals) = bs.inv[a].n * bs.inv[a].m
            /\ \A i \in 1 .. Len(bs.inv[a].vals) :
                   bs.inv[a].vals[i].stat.xy
                       = bs.inv[a].datas[((i - 1) \div bs.inv[a].m) + 1]

\* what the code does: the claim holds for the eigenvalue, cross-correlation
\* and Pearson statistics; with the transverse energy the first trial raises
\* AttributeError after its corrections are drawn, and no value is computed
C18_InCode ==
    \A a \in Invs :
        (bs.inv[a].kind = "cv" /\ Finished(a)) =>
            IF bs.inv[a].func = "transenergy"
            THEN /\ bs.inv[a].pc = "AttributeError"
                 /\ Len(bs.inv[a].corr) = 1
                 /\ bs.inv[a].vals = << >>
            ELSE /\ bs.inv[a].pc = "returned"
                 /\ Len(bs.inv[a].corr) = bs.inv[a].n
                 /\ Len(bs.inv[a].vals) = bs.inv[a].n * bs.inv[a].m
                 /\ \A i \in 1 .. Len(bs.inv[a].vals) :
                        bs.inv[a].vals[i].stat.xy
                            = bs.inv[a].datas[((i - 1) \div bs.inv[a].m) + 1]

\* C19: bootstrap draws use no shared mutable random state: an invocation
\* returns the values it returns when it runs alone from the seeded state,
\* under every interleaving or ordering of the two invocations' trials.
C19_NoSharedRandomState ==
    \A a \in Invs :
        bs.inv[a].pc = "returned" => Positions(a) = 1 .. Cardinality(Positions(a))

\* what the code does: every draw of either invocation advances the one
\* global stream, so the positions the two invocations draw from are disjoint
\* and together are the positions drawn so far
C19_InCode ==
    /\ Positions("A") \cap Positions("B") = { }
    /\ Positions("A") \cup Positions("B") = 1 .. bs.rng

--------------------------------------------------------------------------
(* eigval3d.eigvalcov and grideigval                                       *)
(* (src/splitwavepy/eigval/eigval3d.py, l.43-48 and l.51-120)              *)
(* The eigenvalues of the covariance matrix of a node's pair are drawn     *)
(* from a small set, in the order np.linalg.eigvals happens to return      *)
(* them.  Surfaces are indexed [jj][ii]: lag, then angle.                  *)

MaxEig == 2

EigDegs == { << >>, << -90 >>, << -90, 0 >> }
EigLags == { << >>, << 0 >>, << 0, 2 >> }
\* the optional keywords given: none, or both corrections
EigKws == { { }, { "rcvcorr", "srccorr" } }
\* np.linalg.eigvals(np.cov(data)): the two eigenvalues, in either order
EigVals == (0 .. MaxEig) \X (0 .. MaxEig)

\* mutant of eigvalcov: the eigenvalues are returned as eigvals orders them
eigvalcovUnsorted(e) == e
\* l.43-48: np.sort(np.linalg.eigvals(np.cov(data)))
eigvalcov(e) == IF e[1] <= e[2] THEN e ELSE << e[2], e[1] >>

\* l.82-83: np.zeros(shape), shape = (number of lags, number of angles)
Zeros(L, A) == [ j \in 1 .. L |-> [ i \in 1 .. A |-> 0 ] ]

\* the rest of the state is not touched by grideigval
EgFrame == UNCHANGED << degs, gsvars, gevars, ft, nd, vw, ctor, bs, objvars >>

\* l.79-92: the grid, the zeroed surfaces and the receiver correction
EgStart ==
    /\ eg.pc = "start"
    /\ eg' = [ eg EXCEPT
                 !.pc = "outer",
                 !.lam1 = Zeros(Len(eg.lags), Len(eg.degs)),
                 !.lam2 = Zeros(Len(eg.lags), Len(eg.degs)),
                 !.eigs = Zeros(Len(eg.lags), Len(eg.degs)),
                 !.nwrites = Zeros(Len(eg.lags), Len(eg.degs)),
                 !.terms = [ j \in 1 .. Len(eg.lags) |->
                               [ i \in 1 .. Len(eg.degs) |-> << >> ] ],
                 !.xy = IF "rcvcorr" \in eg.kw
                        THEN Unsplit(<< >>, eg.rcvcorr[1], eg.rcvcorr[2])
                        ELSE << >> ]
    /\ EgFrame

\* l.108-109: the next angle; degs[0,ii] is read from the first row of the
\* meshgrid, which does not exist when there are no lags
EgOuter ==
    /\ eg.pc = "outer"
    /\ eg.ii < Len(eg.degs)
    /\ IF Len(eg.lags) = 0
       THEN eg' = [ eg EXCEPT !.pc = "IndexError" ]
       ELSE eg' = [ eg EXCEPT !.pc = "inner", !.jj = 0,
                              !.txy = Rotate(eg.xy, eg.degs[eg.ii + 1]) ]
    /\ EgFrame

\* l.105-107 or l.99-103: srccorr(x, y, ang)
EgSrccorr(p, ang) ==
    IF "srccorr" \in eg.kw
    THEN Lag(Rotate(p, eg.srccorr[1] - ang), -eg.srccorr[2])
    ELSE p

\* mutant of EgNode: every angle writes its statistics into the first column
EgNodeFirstColumn ==
    /\ eg.pc = "inner"
    /\ eg.jj < Len(eg.lags)
    /\ \E e \in EigVals :
         LET i == eg.ii + 1
             j == eg.jj + 1
             uxy == Chop(EgSrccorr(Lag(eg.txy, -eg.lags[j]), eg.degs[i]),
                         eg.window[1], eg.window[2])
             lam == eigvalcov(e)
         IN  eg' = [ eg EXCEPT !.jj = j,
                               !.uxy = uxy,
                               !.eigs[j][1] = e,
                               !.lam2[j][1] = lam[1],
                               !.lam1[j][1] = lam[2],
                               !.terms[j][1] = uxy,
                               !.nwrites[j][1] = @ + 1 ]
    /\ EgFrame

\* l.110-118: one node; terms records the pair the node's eigenvalues were
\* measured on
EgNode ==
    /\ eg.pc = "inner"
    /\ eg.jj < Len(eg.lags)
    /\ \E e \in EigVals :
         LET i == eg.ii + 1
             j == eg.jj + 1
             uxy == Chop(EgSrccorr(Lag(eg.txy, -eg.lags[j]), eg.degs[i]),
                         eg.window[1], eg.window[2])
             lam == eigvalcov(e)
         IN  eg' = [ eg EXCEPT !.jj = j,
                               !.uxy = uxy,
                               !.eigs[j][i] = e,
                               !.lam2[j][i] = lam[1],
                               !.lam1[j][i] = lam[2],
                               !.terms[j][i] = uxy,
                               !.nwrites[j][i] = @ + 1 ]
    /\ EgFrame

\* l.108: the inner loop is exhausted
EgNextAngle ==
    /\ eg.pc = "inner"
    /\ eg.jj = Len(eg.lags)
    /\ eg' = [ eg EXCEPT !.pc = "outer", !.ii = @ + 1 ]
    /\ EgFrame

\* l.120: return degs,lags,lam1,lam2,kwargs['window']
EgReturn ==
    /\ eg.pc = "outer"
    /\ eg.ii = Len(eg.degs)
    /\ eg' = [ eg EXCEPT !.pc = "returned" ]
    /\ EgFrame

\* a call grideigval(x, y, lags=..., degs=..., window=..., ...) entered
InitEig ==
    /\ eg \in [ pc : { "start" }, kw : EigKws, degs : EigDegs, lags : EigLags,
                rcvcorr : RcvCorrs, srccorr : SrcCorrs, window : Windows,
                ii : { 0 }, jj : { 0 }, xy : { << >> }, txy : { << >> },
                uxy : { << >> }, lam1 : { << >> }, lam2 : { << >> },
                eigs : { << >> }, nwrites : { << >> }, terms : { << >> } ]
    /\ degs = << >>
    /\ IdleGridsearch
    /\ IdleErrors
    /\ ft = [ status |-> "idle" ]
    /\ nd = [ status |-> "idle" ]
    /\ vw = [ status |-> "idle" ]
    /\ ctor = [ status |-> "idle" ]
    /\ bs = [ status |-> "idle" ]
    /\ IdleObjects

NextEig ==
    \/ EgStart
    \/ EgOuter
    \/ EgNode
    \/ EgNextAngle
    \/ EgReturn

SpecEig == InitEig /\ [][NextEig]_vars

--------------------------------------------------------------------------
(* Data (src/splitwavepy/core/data.py, l.20-136): construction, the delta   *)
(* property and the window it holds.  delta is a float: a rational          *)
(* << num, 1 >>, or NaN.  A window is << width, offset >>.                  *)

MaxDelta == 2

\* the values a caller can pass as delta: numbers, and float('nan')
DeltaVals == { Whole(d) : d \in -1 .. MaxDelta } \cup { NaN }
\* l.45: delta <= 0, which is False for nan
Le0(x) == x[2] # 0 /\ x[1] <= 0

\* the state of Measure and eigval3d is not touched by Data, Trio or
\* WindowPicker
ObjFrame == UNCHANGED << degs, gsvars, gevars, ft, nd, vw, ctor, bs, eg >>

\* l.27-35 with the setter l.43-46: Data(delta=...) or Data()
DataNew ==
    /\ dat.status = "new"
    /\ \E given \in BOOLEAN : \E d \in DeltaVals :
         dat' = IF ~given THEN [ dat EXCEPT !.status = "failed", !.err = "Exception" ]
                ELSE IF Le0(d) THEN [ dat EXCEPT !.status = "failed", !.err = "ValueError" ]
                ELSE [ dat EXCEPT !.status = "constructed", !.delta = d ]
    /\ UNCHANGED << trio, picker >>
    /\ ObjFrame

\* l.43-46: data.delta = d
DataSetDelta ==
    /\ dat.status = "constructed"
    /\ \E d \in DeltaVals :
         dat' = IF Le0(d)
                THEN [ dat EXCEPT !.call = "delta", !.err = "ValueError", !.prev = dat.delta ]
                ELSE [ dat EXCEPT !.call = "delta", !.err = "none", !.prev = dat.delta,
                                  !.delta = d ]
    /\ UNCHANGED << trio, picker >>
    /\ ObjFrame

\* core.odd(x) for x = num/den > 0: the odd integer of the pair 2m, 2m+1
\* that x lies in
Odd(num, den) == 2 * (num \div (2 * den)) + 1

\* mutant of ConstructWindow: the width is the even number of samples itself
ConstructWindowEven(start, end, delta, centresamp) ==
    IF start > end THEN << "ValueError", << >> >>
    ELSE << "none", << Time2SampsEven(Whole(end - start), delta),
                       Rint(start + end, 2 * delta) - centresamp >> >>

\* l.128-136: construct_window(start, end); tcs = time2samps(time_centre,
\* delta) rounds to the nearest sample
ConstructWindow(start, end, delta, centresamp) ==
    IF start > end THEN << "ValueError", << >> >>
    ELSE << "none", << Time2SampsEven(Whole(end - start), delta) + 1,
                       Rint(start + end, 2 * delta) - centresamp >> >>

\* l.66-85: set_window(*args) with args = << >> or << start, end >>
SetWindowOf(d, args) ==
    IF Len(args) = 0
    THEN [ d EXCEPT !.call = "set_window", !.err = "none",
                    !.window = << Odd(d.nsamps, 3), 0 >> ]
    ELSE LET w == ConstructWindow(args[1], args[2], d.delta[1], d.nsamps \div 2)
         IN  IF w[1] = "none"
             THEN [ d EXCEPT !.call = "set_window", !.err = "none", !.window = w[2] ]
             ELSE [ d EXCEPT !.call = "set_window", !.err = w[1] ]

\* a set_window call on a Data whose delta is a number
DataSetWindow ==
    /\ dat.status = "constructed"
    /\ dat.delta # NaN
    /\ \E args \in { << >> } \cup ((0 .. MaxT) \X (0 .. MaxT)) :
         dat' = SetWindowOf(dat, args)
    /\ UNCHANGED << trio, picker >>
    /\ ObjFrame

(* WindowPicker (data.py l.218-286) on the Data object.  cids is the set of *)
(* handlers registered with the canvas, by the name of the stored           *)
(* connection id; the canvas delivers an event to a registered handler      *)
(* while the figure is open.                                                 *)

MaxPress == 2

\* l.223-242: WindowPicker(data, fig, ax) and connect(); data.wbeg() and
\* data.wend() are the times of the window's first and last sample
PickerOpen ==
    /\ picker.status = "none"
    /\ dat.status = "constructed"
    /\ dat.window # << >>
    /\ dat.delta # NaN
    /\ \E b \in 0 .. MaxT : \E e \in b .. MaxT :
         picker' = [ picker EXCEPT
                       !.status = "connected", !.x1 = b, !.x2 = e, !.figopen = TRUE,
                       !.cids = { "cidclick", "cidmotion", "cidenter", "cidleave",
                                  "cidkey" } ]
    /\ UNCHANGED << dat, trio >>
    /\ ObjFrame

\* l.244-254: a button press delivered to click
PickerClick ==
    /\ picker.figopen
    /\ "cidclick" \in picker.cids
    /\ \E inaxes \in BOOLEAN : \E button \in { 1, 2, 3 } : \E x \in 0 .. MaxT :
         picker' = IF ~inaxes THEN picker
                   ELSE IF button = 1 THEN [ picker EXCEPT !.x1 = x ]
                   ELSE IF button = 3 THEN [ picker EXCEPT !.x2 = x ]
                   ELSE picker
    /\ UNCHANGED << dat, trio >>
    /\ ObjFrame

\* l.260-276: enter shows the cursor line, leave hides it and motion moves
\* it; of the line only its visibility is recorded
PickerCursor ==
    /\ picker.figopen
    /\ \E cid \in { "cidenter", "cidleave", "cidmotion" } \cap picker.cids :
       \E inaxes \in BOOLEAN :
         picker' = IF ~inaxes THEN picker
                   ELSE IF cid = "cidenter" THEN [ picker EXCEPT !.cursor = TRUE ]
                   ELSE IF cid = "cidleave" THEN [ picker EXCEPT !.cursor = FALSE ]
                   ELSE picker
    /\ UNCHANGED << dat, trio >>
    /\ ObjFrame

\* mutant of Sorted2: the limits are passed on as they are
Unsorted2(a, b) == << a, b >>
\* l.285: sorted((self.x1, self.x2))
Sorted2(a, b) == IF a <= b THEN << a, b >> ELSE << b, a >>

\* l.256-258 and l.278-286: a key press delivered to keypress; the space
\* bar runs disconnect, whose plt.close() closes the current figure, which
\* is the picker's or another one
PickerKeypress ==
    /\ picker.figopen
    /\ "cidkey" \in picker.cids
    /\ picker.ndisc < MaxPress
    /\ dat.delta # NaN
    /\ \E key \in { " ", "a" } : \E current \in BOOLEAN :
         IF key # " " THEN UNCHANGED << dat, picker >>
         ELSE LET arg == Sorted2(picker.x1, picker.x2)
                  d == SetWindowOf(dat, arg)
              IN  /\ dat' = d
                  /\ picker' = [ picker EXCEPT
                                   !.cids = @ \ { "cidclick", "cidmotion", "cidenter",
                                                  "cidleave" },
                                   !.figopen = ~current,
                                   !.ndisc = @ + 1,
                                   !.arg = arg,
                                   !.err = d.err ]
    /\ UNCHANGED trio
    /\ ObjFrame

\* Data(...) entered, for traces of nsamps samples; no picker yet
InitData ==
    /\ dat \in [ status : { "new" }, nsamps : { 1, 7, 9 }, delta : { NaN },
                 prev : { NaN }, err : { "none" }, call : { "init" },
                 window : { << >> } ]
    /\ trio = [ status |-> "idle" ]
    /\ picker = [ status |-> "none", x1 |-> 0, x2 |-> 0, cids |-> { }, figopen |-> FALSE,
                  cursor |-> FALSE, ndisc |-> 0, arg |-> << >>, err |-> "none" ]
    /\ degs = << >>
    /\ IdleGridsearch
    /\ IdleErrors
    /\ ft = [ status |-> "idle" ]
    /\ nd = [ status |-> "idle" ]
    /\ vw = [ status |-> "idle" ]
    /\ ctor = [ status |-> "idle" ]
    /\ bs = [ status |-> "idle" ]
    /\ eg = [ status |-> "idle" ]

NextData ==
    \/ DataNew
    \/ DataSetDelta
    \/ DataSetWindow
    \/ PickerOpen
    \/ PickerClick
    \/ PickerCursor
    \/ PickerKeypress

SpecData == InitData /\ [][NextData]_vars

\* C21: a Data object cannot be constructed without a delta keyword, every
\* assignment of a delta <= 0 fails with ValueError and leaves the stored
\* delta in place; hence in every reachable state of a Data object delta > 0.
C21_DeltaPositive ==
    dat.status = "constructed" => (dat.delta[2] # 0 /\ dat.delta[1] > 0)

\* what the code does: the setter rejects exactly the values that compare
\* <= 0, so a delta <= 0 is never stored and a failed assignment leaves the
\* stored delta in place, but nan, which does not compare <= 0, is stored
C21_InCode ==
    /\ dat.status = "constructed" => ~Le0(dat.delta)
    /\ (dat.status = "constructed" /\ dat.call = "delta" /\ dat.err = "ValueError")
           => dat.delta = dat.prev
    /\ dat.status = "failed" => dat.err \in { "Exception", "ValueError" }

--------------------------------------------------------------------------
(* Trio (src/splitwavepy/core/trio.py): construction with its sanity       *)
(* checks (l.37-90), the synthetic traces of _synth (l.276-331) and         *)
(* genwindow (l.264-273).  An array is [ ndim, size ]; the keyword window   *)
(* is absent ("none"), a Window object ("Window") or another value          *)
(* ("other").                                                                *)

MaxSize == 3

\* int(a / b) for b > 0: truncation towards zero
Trunc(a, b) == IF a >= 0 THEN a \div b ELSE -((-a) \div b)

\* l.319-331: x and y come out of core.split(x, y, fast, lag), which drops
\* lag samples; z keeps nsamps samples
Synth(nsamps, lag) ==
    << [ ndim |-> 1, size |-> nsamps - lag ], [ ndim |-> 1, size |-> nsamps - lag ],
       [ ndim |-> 1, size |-> nsamps ] >>

\* mutant of TrioInitOf: the check for an odd number of samples is dropped
TrioInitAnyParity(t) ==
    IF t.kwwindow = "Window" THEN [ t EXCEPT !.status = "failed", !.err = "NameError" ]
    ELSE IF Len(t.args) \notin { 0, 3 }
    THEN [ t EXCEPT !.status = "failed", !.err = "Exception" ]
    ELSE LET xyz == IF Len(t.args) = 0 THEN Synth(t.nsamps, t.lag) ELSE t.args
         IN  IF \/ xyz[1].ndim # 1
                \/ xyz[1].size # xyz[2].size
                \/ xyz[1].size # xyz[3].size
             THEN [ t EXCEPT !.status = "failed", !.err = "Exception" ]
             ELSE [ t EXCEPT !.status = "constructed", !.x = xyz[1], !.y = xyz[2],
                             !.z = xyz[3], !.window = "None" ]

\* l.37-90: Trio(*args, **kwargs); l.50 reads the name window, which is
\* bound nowhere in __init__ or the module
TrioInitOf(t) ==
    IF t.kwwindow = "Window" THEN [ t EXCEPT !.status = "failed", !.err = "NameError" ]
    ELSE IF Len(t.args) \notin { 0, 3 }
    THEN [ t EXCEPT !.status = "failed", !.err = "Exception" ]
    ELSE LET xyz == IF Len(t.args) = 0 THEN Synth(t.nsamps, t.lag) ELSE t.args
         IN  IF \/ xyz[1].ndim # 1
                \/ xyz[1].size % 2 = 0
                \/ xyz[1].size # xyz[2].size
                \/ xyz[1].size # xyz[3].size
             THEN [ t EXCEPT !.status = "failed", !.err = "Exception" ]
             ELSE [ t EXCEPT !.status = "constructed", !.x = xyz[1], !.y = xyz[2],
                             !.z = xyz[3], !.window = "None" ]

TrioNew ==
    /\ trio.status = "new"
    /\ trio' = TrioInitOf(trio)
    /\ UNCHANGED << dat, picker >>
    /\ ObjFrame

\* l.264-273: the width and offset genwindow hands to Window
GenWindow(time_centre, time_width, delta, centre) ==
    LET width == Trunc(time_width, delta)
    IN  << IF width % 2 = 1 THEN width ELSE width + 1,
           Trunc(time_centre, delta) - centre >>

\* trio.genwindow(time_centre, time_width) on a constructed Trio; l.104-105
\* centre() is int(x.size / 2)
TrioGenwindow ==
    /\ trio.status = "constructed"
    /\ \E tc \in 0 .. MaxT : \E tw \in -MaxT .. MaxT :
         trio' = [ trio EXCEPT !.built = GenWindow(tc, tw, trio.delta, trio.x.size \div 2),
                               !.tw = tw ]
    /\ UNCHANGED << dat, picker >>
    /\ ObjFrame

\* Trio(...) entered: with three arrays, with one, or with none (synthetic)
InitTrio ==
    /\ \E args \in { << >> } \cup [ 1 .. 1 -> [ ndim : { 1 }, size : { 3 } ] ]
                     \cup [ 1 .. 3 -> [ ndim : { 1, 2 }, size : 1 .. MaxSize ] ] :
       \E kw \in { "none", "other", "Window" } :
       \E delta \in { 1, 2 } : \E nsamps \in { 4, 5 } : \E lag \in { 0, 2 } :
         trio = [ status |-> "new", args |-> args, kwwindow |-> kw, delta |-> delta,
                  nsamps |-> IF Len(args) = 0 THEN nsamps ELSE 0,
                  lag |-> IF Len(args) = 0 THEN lag ELSE 0,
                  x |-> << >>, y |-> << >>, z |-> << >>, window |-> "unset",
                  err |-> "none", built |-> << >>, tw |-> 0 ]
    /\ dat = [ status |-> "idle" ]
    /\ picker = [ status |-> "idle" ]
    /\ degs = << >>
    /\ IdleGridsearch
    /\ IdleErrors
    /\ ft = [ status |-> "idle" ]
    /\ nd = [ status |-> "idle" ]
    /\ vw = [ status |-> "idle" ]
    /\ ctor = [ status |-> "idle" ]
    /\ bs = [ status |-> "idle" ]
    /\ eg = [ status |-> "idle" ]

NextTrio ==
    \/ TrioNew
    \/ TrioGenwindow

SpecTrio == InitTrio /\ [][NextTrio]_vars

\* the data the constructor checks: the arrays given, or the synthetic ones
TrioData(t) == IF Len(t.args) = 0 THEN Synth(t.nsamps, t.lag) ELSE t.args

\* C22: Trio construction fails with an error whenever x is not
\* one-dimensional, x has an even number of samples, or x, y and z do not
\* all have the same length; every successfully constructed Trio has an odd
\* sample count and three equal-length components.
C22_TrioSanity ==
    /\ (/\ trio.status \in { "constructed", "failed" }
        /\ Len(trio.args) \in { 0, 3 }
        /\ \/ TrioData(trio)[1].ndim # 1
           \/ TrioData(trio)[1].size % 2 = 0
           \/ TrioData(trio)[1].size # TrioData(trio)[2].size
           \/ TrioData(trio)[1].size # TrioData(trio)[3].size)
           => (trio.status = "failed" /\ trio.err # "none")
    /\ trio.status = "constructed"
           => /\ trio.x.size % 2 = 1
              /\ trio.x.size = trio.y.size
              /\ trio.x.size = trio.z.size

\* a construction from three one-dimensional arrays of one even length,
\* refused by the sanity checks
C22_Witness ==
    /\ trio.status = "failed" /\ trio.kwwindow # "Window" /\ Len(trio.args) = 3
    /\ trio.args[1].ndim = 1 /\ trio.args[1].size = 2
    /\ trio.args[2].size = 2 /\ trio.args[3].size = 2

\* C23: a Trio constructed with the keyword window set to a Window object
\* is created and has that Window as its window attribute; constructed
\* without the keyword (or with a non-Window value) its window is None.
C23_WindowKept ==
    (/\ trio.status \in { "constructed", "failed" }
     /\ Len(trio.args) = 3
     /\ TrioData(trio)[1].ndim = 1
     /\ TrioData(trio)[1].size % 2 = 1
     /\ TrioData(trio)[1].size = TrioData(trio)[2].size
     /\ TrioData(trio)[1].size = TrioData(trio)[3].size)
        => /\ trio.status = "constructed"
           /\ trio.window = IF trio.kwwindow = "Window" THEN "Window" ELSE "None"

\* what the code does: with a Window object the constructor stops at l.50
\* with a NameError; every Trio that is constructed has window None
C23_InCode ==
    /\ (trio.status \in { "constructed", "failed" } /\ trio.kwwindow = "Window")
           => (trio.status = "failed" /\ trio.err = "NameError")
    /\ trio.status = "constructed" => trio.window = "None"


\* the pair the statistic of lag lags[j] and angle degs[i] is measured on:
\* the corrected data rotated by degs[i], lagged by -lags[j], source
\* corrected and chopped
EgExpected(j, i) ==
    LET xy0 == IF "rcvcorr" \in eg.kw
               THEN Unsplit(<< >>, eg.rcvcorr[1], eg.rcvcorr[2]) ELSE << >>
        lagged == Lag(Rotate(xy0, eg.degs[i]), -eg.lags[j])
        corr == IF "srccorr" \in eg.kw
                THEN Lag(Rotate(lagged, eg.srccorr[1] - eg.degs[i]), -eg.srccorr[2])
                ELSE lagged
    IN  Chop(corr, eg.window[1], eg.window[2])

\* C24: in one grideigval run every node [jj, ii] of lam1 and lam2 is
\* written exactly once, with the statistic for lag lags[jj] and angle
\* degs[ii]; the writes of different angles touch disjoint columns (while
\* angle ii runs only column ii is being filled, the columns before it are
\* complete and the columns after it untouched), and no node is written
\* again after the run returns.
C24_NodesWrittenOnce ==
    eg.pc \in { "outer", "inner", "returned" } =>
        \A j \in 1 .. Len(eg.lags) : \A i \in 1 .. Len(eg.degs) :
            /\ eg.nwrites[j][i] <= 1
            /\ eg.nwrites[j][i] = 1 <=>
                   \/ i <= eg.ii
                   \/ eg.pc = "inner" /\ i = eg.ii + 1 /\ j <= eg.jj
            /\ eg.nwrites[j][i] = 1 =>
                   /\ eg.terms[j][i] = EgExpected(j, i)
                   /\ { eg.lam2[j][i], eg.lam1[j][i] }
                          = { eg.eigs[j][i][1], eg.eigs[j][i][2] }
            /\ eg.pc = "returned" => eg.nwrites[j][i] = 1

\* a run over two lags and two angles, with both corrections, has returned
C24_Witness ==
    /\ eg.pc = "returned"
    /\ Len(eg.lags) = 2
    /\ Len(eg.degs) = 2
    /\ "srccorr" \in eg.kw
    /\ \A j \in 1 .. 2 : \A i \in 1 .. 2 : eg.nwrites[j][i] = 1


\* C25: every window built by Data.construct_window(start, end), by
\* Data.set_window() with no arguments, or by Trio.genwindow(time_centre,
\* time_width) has an odd integer width >= 1, for every input these
\* operations accept; construct_window rejects start > end with ValueError
\* without building a window.
C25_WindowWidth ==
    trio.built # << >> => (trio.built[1] % 2 = 1 /\ trio.built[1] >= 1)

\* what the code does in Trio.genwindow: the width is made odd, and is
\* below 1 exactly when time_width is at most -delta
C25_InCode ==
    trio.built # << >> =>
        /\ trio.built[1] % 2 = 1
        /\ trio.built[1] < 1 <=> trio.tw <= -trio.delta

\* what the code does in Data: the windows of construct_window and of
\* set_window() have an odd width >= 1, and a set_window(start, end) with
\* start > end ends in ValueError and leaves the window as it was
C25_DataWindows ==
    /\ dat.status = "constructed" /\ dat.window # << >>
           => (dat.window[1] % 2 = 1 /\ dat.window[1] >= 1)
    /\ \A s \in 0 .. MaxT : \A e \in 0 .. MaxT : \A d \in 1 .. MaxDelta :
           ConstructWindow(s, e, d, 0)[1] = "ValueError" <=> s > e


\* C26: WindowPicker.disconnect disconnects all the connection ids stored
\* by connect (click, motion, enter, leave and key press): after disconnect
\* no WindowPicker handler remains registered, so a later key press cannot
\* trigger disconnect or set_window again.
C26_AllDisconnected ==
    /\ picker.ndisc >= 1 => picker.cids = { }
    /\ picker.ndisc <= 1

\* what the code does: disconnect removes the click, motion, enter and
\* leave handlers and leaves the key press handler registered
C26_InCode ==
    picker.ndisc >= 1 => picker.cids = { "cidkey" }

\* C27: after any sequence of WindowPicker click events (button 1 sets x1,
\* button 3 sets x2, clicks outside the picker's axes change neither), the
\* set_window call made at disconnect receives (min(x1, x2), max(x1, x2)),
\* so construct_window's 'start is larger than end' error is never raised
\* from the picker.
C27_PickerSorted ==
    picker.ndisc >= 1 =>
        /\ picker.arg[1] = (IF picker.x1 <= picker.x2 THEN picker.x1 ELSE picker.x2)
        /\ picker.arg[2] = (IF picker.x1 <= picker.x2 THEN picker.x2 ELSE picker.x1)
        /\ picker.err = "none"

\* disconnect has run after clicks that left x1 to the right of x2
C27_Witness ==
    /\ picker.ndisc >= 1
    /\ picker.x1 > picker.x2
    /\ picker.arg = << picker.x2, picker.x1 >>


\* the 'min' mask of get_errors (measure.py l.421-422) for the surface lam2
\* and the level num/den, den > 0: lam2 <= level
MinMask(lam2, level) ==
    ConfBool([ j \in 1 .. Len(lam2) |->
                 [ i \in 1 .. Len(lam2[j]) |-> lam2[j][i] * level[2] ] ],
             level[1], "min")

\* C28: with surftype 'min', a level computed by ftest as
\* lam2min*(1 + (k/(ndf-k))*F) with k = 2, ndf > 2, F >= 0 and lam2min >= 0
\* is never below lam2min, so the node attaining the surface minimum always
\* lies inside the confidence mask and the mask passed to the bounds
\* extraction is never empty.
C28_MinInsideMask ==
    (ft.status = "returned" /\ ft.ndf > k) =>
        /\ ft.lam2alpha[2] > 0
        /\ ft.lam2alpha[1] >= SurfMin(ft.lam2) * ft.lam2alpha[2]
        /\ \A j \in 1 .. Len(ft.lam2) : \A i \in 1 .. Len(ft.lam2[j]) :
               ft.lam2[j][i] = SurfMin(ft.lam2) => MinMask(ft.lam2, ft.lam2alpha)[j][i]
        /\ \E j \in 1 .. Len(ft.lam2) : \E i \in 1 .. Len(ft.lam2[j]) :
               MinMask(ft.lam2, ft.lam2alpha)[j][i]

\* a level returned for ndf > 2 and a positive minimum, with a node of the
\* surface outside the mask
C28_Witness ==
    /\ ft.status = "returned"
    /\ ft.ndf > k
    /\ SurfMin(ft.lam2) > 0
    /\ \E j \in 1 .. Len(ft.lam2) : \E i \in 1 .. Len(ft.lam2[j]) :
           ~MinMask(ft.lam2, ft.lam2alpha)[j][i]


\* C29: Measure.gridsearch and Measure.data_corr apply the same set of
\* pre-existing corrections: a receiver (source) correction given at
\* construction is applied by every gridsearch call, whatever keyword
\* arguments that call carries, exactly when data_corr applies it, that is
\* when self.rcvcorr (self.srccorr) is not None.
C29_SameCorrections ==
    pc = "returned" =>
        /\ Len(CallsAt("rcvcorr")) = 1 <=> rcvcorr # Unset
        /\ \A n \in 1 .. Len(CallsAt("srccorr")) :
               CallsAt("srccorr")[n].o # NoOp <=> srccorr # Unset

\* what the code does: gridsearch applies a correction exactly when its own
\* call carries the keyword, and a call that carries the keyword on an
\* object constructed without that correction ends in AttributeError
C29_InCode ==
    /\ pc = "returned" =>
           /\ Len(CallsAt("rcvcorr")) = 1 <=> "rcvcorr" \in kwargs.keys
           /\ \A n \in 1 .. Len(CallsAt("srccorr")) :
                  CallsAt("srccorr")[n].o # NoOp <=> "srccorr" \in kwargs.keys
           /\ "rcvcorr" \in kwargs.keys => rcvcorr # Unset
           /\ "srccorr" \in kwargs.keys => srccorr # Unset
    /\ pc = "AttributeError" =>
           \/ "rcvcorr" \in kwargs.keys /\ rcvcorr = Unset
           \/ "srccorr" \in kwargs.keys /\ srccorr = Unset
==========================================================================
